---------------------------- MODULE Spec2Model ----------------------------
(***************************************************************************)
(* A model of strict-s3-sync: the three-phase planner (Phase1Compare,      *)
(* Phase2CollectChecksums, Phase3GeneratePlan), FSToS3Planner.Plan, the    *)
(* executor, the command's run function and the retry wrappers of the S3   *)
(* client.                                                                 *)
(*                                                                         *)
(* Strings that the code orders, joins or matches (paths, keys, patterns,  *)
(* action names) are sequences of one-character strings, so that Go's      *)
(* bytewise "<", filepath.Join and the glob matcher are computed and not   *)
(* assumed.  Checksums are opaque: the code only tests them for equality   *)
(* and for emptiness, so they are TLA+ strings ("" is the empty checksum). *)
(***************************************************************************)
EXTENDS Integers, Sequences, FiniteSets, TLC

(***************************************************************************)
(* Bounds of the model.                                                    *)
(***************************************************************************)
\* file sizes range over 1..MaxSize
MaxSize == 2
\* the executor is made with a concurrency of -1..MaxConcurrency
MaxConcurrency == 2

(***************************************************************************)
(* Strings.                                                                *)
(***************************************************************************)
\* the byte value of each character the model uses (Go compares strings bytewise)
Code ==
    [c \in {"*", ".", "/", "a", "b", "c", "d", "e", "k", "l", "o", "p", "t", "u"} |->
        CASE c = "*" -> 42  [] c = "." -> 46  [] c = "/" -> 47
          [] c = "a" -> 97  [] c = "b" -> 98  [] c = "c" -> 99
          [] c = "d" -> 100 [] c = "e" -> 101 [] c = "k" -> 107
          [] c = "l" -> 108 [] c = "o" -> 111 [] c = "p" -> 112
          [] c = "t" -> 116 [] c = "u" -> 117]

RECURSIVE StrLess(_, _)
\* Go's s < t on strings: bytewise lexicographic order
StrLess(s, t) ==
    IF t = <<>> THEN FALSE
    ELSE IF s = <<>> THEN TRUE
    ELSE IF Code[Head(s)] # Code[Head(t)] THEN Code[Head(s)] < Code[Head(t)]
    ELSE StrLess(Tail(s), Tail(t))

\* strings.HasPrefix
HasPrefix(s, pre) ==
    Len(s) >= Len(pre) /\ SubSeq(s, 1, Len(pre)) = pre

\* strings.TrimPrefix
TrimPrefix(s, pre) ==
    IF HasPrefix(s, pre) THEN SubSeq(s, Len(pre) + 1, Len(s)) ELSE s

RECURSIVE SplitSlash(_)
\* strings.Split(s, "/"): the segments of s between slashes
SplitSlash(s) ==
    IF \A i \in 1..Len(s) : s[i] # "/" THEN <<s>>
    ELSE LET k == CHOOSE i \in 1..Len(s) :
                      s[i] = "/" /\ \A j \in 1..(i - 1) : s[j] # "/"
         IN  <<SubSeq(s, 1, k - 1)>> \o SplitSlash(SubSeq(s, k + 1, Len(s)))

RECURSIVE JoinSlash(_)
\* strings.Join(segs, "/")
JoinSlash(segs) ==
    IF segs = <<>> THEN <<>>
    ELSE IF Len(segs) = 1 THEN segs[1]
    ELSE segs[1] \o <<"/">> \o JoinSlash(Tail(segs))

RECURSIVE CleanSegs(_, _)
\* the element pass of Clean over a relative path: empty and "." elements are
\* dropped, ".." removes the element before it (or stays, at the start)
CleanSegs(done, todo) ==
    IF todo = <<>> THEN done
    ELSE LET e == Head(todo) IN
         IF e = <<>> \/ e = <<".">> THEN CleanSegs(done, Tail(todo))
         ELSE IF e = <<".", ".">> /\ done # <<>> /\ done[Len(done)] # <<".", ".">>
              THEN CleanSegs(SubSeq(done, 1, Len(done) - 1), Tail(todo))
         ELSE CleanSegs(Append(done, e), Tail(todo))

\* path.Clean / filepath.Clean of a relative slash-separated path
Clean(s) ==
    LET segs == CleanSegs(<<>>, SplitSlash(s))
    IN  IF segs = <<>> THEN <<".">> ELSE JoinSlash(segs)

\* filepath.Join(a, b) and path.Join(a, b): the non-empty elements joined by
\* "/" and cleaned; the empty string when both are empty
Join(a, b) ==
    IF a = <<>> /\ b = <<>> THEN <<>>
    ELSE IF a = <<>> THEN Clean(b)
    ELSE IF b = <<>> THEN Clean(a)
    ELSE Clean(a \o <<"/">> \o b)

(***************************************************************************)
(* Sequences.                                                              *)
(***************************************************************************)
Range(seq) == {seq[i] : i \in DOMAIN seq}

\* all orderings of a finite set, as sequences without repetition
Perms(S) ==
    {q \in [1..Cardinality(S) -> S] : \A i, j \in 1..Cardinality(S) : q[i] = q[j] => i = j}

\* all orderings of the elements of a sequence
SeqPerms(seq) ==
    {[i \in DOMAIN seq |-> seq[p[i]]] : p \in Perms(DOMAIN seq)}

\* sort.Slice(seq, less) for a sequence whose elements less orders strictly
\* (no two elements tie): element i goes to position 1 + #{j : seq[j] < seq[i]}
SortSlice(seq, Less(_, _)) ==
    LET n == Len(seq)
        rank(i) == 1 + Cardinality({j \in 1..n : Less(seq[j], seq[i])})
    IN  [k \in 1..n |-> seq[CHOOSE i \in 1..n : rank(i) = k]] \o <<>>

\* [F(seq[1]), ..., F(seq[n])]
MapSeq(seq, F(_)) == [i \in DOMAIN seq |-> F(seq[i])] \o <<>>


(***************************************************************************)
(* The planner's data (pkg/planner): ItemMetadata is                       *)
(* [Path, Size, Checksum], ItemRef is [Path, Size], ChecksumData is        *)
(* [ItemRef, SourceChecksum, DestChecksum], Item is                        *)
(* [Action, LocalPath, S3Key, Size, Reason, Checksum].                     *)
(***************************************************************************)
ActionUpload == <<"u", "p", "l", "o", "a", "d">>

ActionDelete == <<"d", "e", "l", "e", "t", "e">>

\* ItemRef{Path: path, Size: size}
ItemRef(path, size) == [Path |-> path, Size |-> size]

\* the map built by "for _, item := range list { m[item.Path] = item }":
\* a later entry with the same path replaces an earlier one
PathMap(list) ==
    [p \in {list[i].Path : i \in DOMAIN list} |->
        list[CHOOSE i \in DOMAIN list :
                 list[i].Path = p /\ \A j \in DOMAIN list : list[j].Path = p => j <= i]]

RefPathLess(r1, r2) == StrLess(r1.Path, r2.Path)

\* sortItemRefs with the sort left out: the order the range loop produced
sortItemRefs_Unsorted(refs) == refs

\* sortItemRefs: sort.Slice by Path
sortItemRefs(refs) == SortSlice(refs, RefPathLess)

\* sortPhase1Result: every list of the result sorted by path
sortPhase1Result(result) ==
    [NewItems     |-> sortItemRefs(result.NewItems),
     DeletedItems |-> sortItemRefs(result.DeletedItems),
     SizeMismatch |-> sortItemRefs(result.SizeMismatch),
     NeedChecksum |-> sortItemRefs(result.NeedChecksum),
     Identical    |-> sortItemRefs(result.Identical)]

\* the "else if" with its two emptiness tests left out
IsIdentical_EqualOnly(srcItem, destItem) ==
    srcItem.Checksum = destItem.Checksum

\* the test of Phase1Compare's "else if": both checksums present and equal
IsIdentical(srcItem, destItem) ==
    /\ destItem.Checksum # ""
    /\ srcItem.Checksum # ""
    /\ srcItem.Checksum = destItem.Checksum

\* the second loop without its "if deleteEnabled"
DeletedRefs_IgnoreFlag(sourceMap, destMap, deleteEnabled, dstOrder) ==
    LET isDeleted(path) == path \notin DOMAIN sourceMap
        dstRef(path)    == ItemRef(path, destMap[path].Size)
    IN  MapSeq(SelectSeq(dstOrder, isDeleted), dstRef)

\* Phase1Compare's second loop: the remote-only paths, in the order the loop
\* over destMap visits them
DeletedRefs(sourceMap, destMap, deleteEnabled, dstOrder) ==
    LET isDeleted(path) == path \notin DOMAIN sourceMap
        dstRef(path)    == ItemRef(path, destMap[path].Size)
    IN  IF deleteEnabled THEN MapSeq(SelectSeq(dstOrder, isDeleted), dstRef) ELSE <<>>

\* Phase1Compare.  Go iterates over a map in an unspecified order: srcOrder and
\* dstOrder are the orders in which the two range loops visit sourceMap and
\* destMap (each an ordering of the map's keys).
Phase1Compare(source, dest, deleteEnabled, srcOrder, dstOrder) ==
    LET sourceMap == PathMap(source)
        destMap   == PathMap(dest)
        exists(path) == path \in DOMAIN destMap
        srcRef(path) == ItemRef(path, sourceMap[path].Size)
        sizeDiffers(path) ==
            exists(path) /\ sourceMap[path].Size # destMap[path].Size
        identical(path) ==
            /\ exists(path)
            /\ sourceMap[path].Size = destMap[path].Size
            /\ IsIdentical(sourceMap[path], destMap[path])
        needChecksum(path) ==
            exists(path) /\ ~sizeDiffers(path) /\ ~identical(path)
        isNew(path) == ~exists(path)
    IN  sortPhase1Result(
            [NewItems     |-> MapSeq(SelectSeq(srcOrder, isNew), srcRef),
             DeletedItems |-> DeletedRefs(sourceMap, destMap, deleteEnabled, dstOrder),
             SizeMismatch |-> MapSeq(SelectSeq(srcOrder, sizeDiffers), srcRef),
             NeedChecksum |-> MapSeq(SelectSeq(srcOrder, needChecksum), srcRef),
             Identical    |-> MapSeq(SelectSeq(srcOrder, identical), srcRef)])

\* the comparison without its test of Action
ItemLess_KeyOnly(i1, i2) == StrLess(i1.S3Key, i2.S3Key)

\* the comparison of Phase3GeneratePlan's sort.Slice: by Action, then by S3Key
ItemLess(i1, i2) ==
    IF i1.Action # i2.Action THEN StrLess(i1.Action, i2.Action)
    ELSE StrLess(i1.S3Key, i2.S3Key)

\* an upload Item as Phase3GeneratePlan builds it (Checksum is set later, by Plan)
UploadItem(ref, reason, localBase, s3Prefix) ==
    [Action    |-> ActionUpload,
     LocalPath |-> Join(localBase, ref.Path),
     S3Key     |-> Join(s3Prefix, ref.Path),
     Size      |-> ref.Size,
     Reason    |-> reason,
     Checksum  |-> ""]

\* a delete Item with the reason of the older planner and a local path
DeleteItem_OldReason(ref, s3Prefix) ==
    [Action    |-> ActionDelete,
     LocalPath |-> ref.Path,
     S3Key     |-> Join(s3Prefix, ref.Path),
     Size      |-> ref.Size,
     Reason    |-> "not in source",
     Checksum  |-> ""]

\* a delete Item as Phase3GeneratePlan builds it
DeleteItem(ref, s3Prefix) ==
    [Action    |-> ActionDelete,
     LocalPath |-> <<>>,
     S3Key     |-> Join(s3Prefix, ref.Path),
     Size      |-> ref.Size,
     Reason    |-> "deleted locally",
     Checksum  |-> ""]

\* checksumMap of Phase3GeneratePlan: path -> ChecksumData, a later entry of
\* the list replacing an earlier one with the same path
ChecksumMap(checksums) ==
    LET csPath(cs) == [Path |-> cs.ItemRef.Path, cs |-> cs]
        m == PathMap(MapSeq(checksums, csPath))
    IN  [path \in DOMAIN m |-> m[path].cs]

\* the test reduced to "the path has an entry"
ChecksumDiffers_Always(checksumMap, ref) ==
    ref.Path \in DOMAIN checksumMap

\* the test as the older planner's skipMissingChecksum made it: an object
\* without a recorded checksum counts as unchanged
ChecksumDiffers_SkipMissing(checksumMap, ref) ==
    /\ ref.Path \in DOMAIN checksumMap
    /\ checksumMap[ref.Path].DestChecksum # ""
    /\ checksumMap[ref.Path].SourceChecksum # checksumMap[ref.Path].DestChecksum

\* the test with a path that has no entry counted as changed
ChecksumDiffers_MissingDiffers(checksumMap, ref) ==
    \/ ref.Path \notin DOMAIN checksumMap
    \/ checksumMap[ref.Path].SourceChecksum # checksumMap[ref.Path].DestChecksum

\* the test of Phase3GeneratePlan's NeedChecksum loop: the path has an entry
\* and its two checksums differ
ChecksumDiffers(checksumMap, ref) ==
    /\ ref.Path \in DOMAIN checksumMap
    /\ checksumMap[ref.Path].SourceChecksum # checksumMap[ref.Path].DestChecksum

\* Phase3GeneratePlan
Phase3GeneratePlan(phase1, checksums, localBase, s3Prefix) ==
    LET newItem(ref)  == UploadItem(ref, "new file", localBase, s3Prefix)
        sizeItem(ref) == UploadItem(ref, "size differs", localBase, s3Prefix)
        sumItem(ref)  == UploadItem(ref, "checksum differs", localBase, s3Prefix)
        delItem(ref)  == DeleteItem(ref, s3Prefix)
        checksumMap   == ChecksumMap(checksums)
        differs(ref)  == ChecksumDiffers(checksumMap, ref)
        appended ==
            MapSeq(phase1.NewItems, newItem)
            \o MapSeq(phase1.SizeMismatch, sizeItem)
            \o MapSeq(SelectSeq(phase1.NeedChecksum, differs), sumItem)
            \o MapSeq(phase1.DeletedItems, delItem)
    IN  SortSlice(appended, ItemLess)

(***************************************************************************)
(* The state.                                                              *)
(***************************************************************************)
VARIABLES
    pc,             \* where the run (or the application of the pure phases) stands
    fs,             \* the local tree: relative path -> [Size, Sum] of the file
    store,          \* the bucket: key -> [Size, Checksum] of the object
    store0,         \* the bucket as it was when the run began
    prefix,         \* the prefix part of the S3 URI (s3://bucket/prefix)
    excludes,       \* opts.Excludes
    deleteEnabled,  \* opts.DeleteEnabled
    dryRun,         \* the --dryrun flag
    report,         \* the report files: which are requested, and what has been written
    localFiles,     \* Plan's localFiles; Phase1Compare's source
    s3Objects,      \* Plan's s3Objects; Phase1Compare's dest
    phase1Result,   \* the Phase1Result
    checksums,      \* the []ChecksumData of phase 2
    items,          \* the plan
    calls,          \* the remote calls issued so far: [op, key]
    planCalls,      \* the remote calls of Plan, in the order it issued them
    results,        \* Execute's results: item index -> Result [Item, Error]
    exitCode,       \* the exit status of the run: "none" until it returns, then 0 or 1
    concurrency,    \* the concurrency NewExecutor is given
    gpc,            \* the goroutines of Execute: item index -> "wait" | "run" | "done"
    failing,        \* the items whose remote call fails, when that is fixed beforehand
    planErr,        \* the error Plan returned: "nil", or the stage that failed
    run,            \* which run of the command this is: the first or the second (0: none)
    rop,            \* the retry wrapper that runs: "head", "put", "delete" ("none": none)
    opFails,        \* the wrapped operation fails this many times with a transient error,
    opThen,         \*   and then gives this outcome
    ctxDone,        \* the wrapper's context has been cancelled
    attempt,        \* the wrapper's loop variable
    lastErr,        \* the wrapper's lastErr
    invocations,    \* how many times the wrapper has invoked the operation
    lastOutcome,    \* what the latest invocation returned
    waits,          \* how many backoff waits the wrapper has begun
    ret,            \* what the wrapper returned: [out, err, exhausted]
    peer,           \* a concurrent call of listObjectsV2WithRetry: [st, attempt]
    num,            \* a call of calculateDelay or calculatePartSize: its argument and result
    workerCount,    \* parallelGatherLocalFiles: the number of workers
    dirErr,         \*   what os.ReadDir gives for each directory: "nil", "perm" or "io"
    dirQueue,       \*   the buffer of the channel dirQueue
    senders,        \*   the paths held by the goroutines blocked in "dirQueue <- ..."
    dirWg,          \*   the counter of dirWg
    closed,         \*   dirQueue has been closed
    wk,             \*   the workers: [st, dir, todo]
    scanned,        \*   the shared slice items
    reads,          \*   how many times os.ReadDir was called on each directory
    resultErr,      \*   resultErr
    scanRet,        \*   what the scan returned: [items, err]
    patternCache,   \* fnmatch's patternCache: pattern -> compiled expression
    mg,             \* the goroutines that call fnmatch: [st, left, pattern, names, re, out]
    mp,             \* Pool.multipartUpload: its locals and the calls it has made
    pool            \* Pool.Execute: its channels, its workers and what it returned

vars ==
    <<pc, fs, store, store0, prefix, excludes, deleteEnabled, dryRun, report, localFiles,
      s3Objects, phase1Result, checksums, items, calls, planCalls, results, exitCode,
      concurrency, gpc, failing, planErr, run, rop, opFails, opThen, ctxDone, attempt, lastErr,
      invocations, lastOutcome, waits, ret, peer, num, workerCount, dirErr, dirQueue, senders,
      dirWg, closed, wk, scanned, reads, resultErr, scanRet, patternCache, mg, mp, pool>>

\* the variables a run uses and an application of the pure phases leaves alone
runVars ==
    <<fs, store, store0, excludes, dryRun, report, calls, planCalls, results, exitCode, concurrency, gpc, failing,
      planErr, run>>

\* the variables of the executor's goroutines
execVars == <<concurrency, gpc, failing>>

\* the variables of a retry wrapper of the S3 client
retryVars ==
    <<rop, opFails, opThen, ctxDone, attempt, lastErr, invocations, lastOutcome, waits, ret,
      peer>>

\* no error: Go's nil.  An error is [api, code, status, net, notFound]: whether
\* its chain holds a smithy.APIError, that error's ErrorCode, its
\* HTTPStatusCode (0: it has no such method), which of
\* context.DeadlineExceeded ("deadline"), io.ErrUnexpectedEOF ("eof") and
\* context.Canceled ("canceled") errors.Is finds in it, and whether errors.As
\* finds a *types.NotFound
NoErr == [api |-> FALSE, code |-> "", status |-> 0, net |-> "nil", notFound |-> FALSE]

\* no retry wrapper runs
RetryIdle ==
    /\ rop = "none" /\ opFails = 0 /\ opThen = NoErr /\ ctxDone = FALSE
    /\ attempt = 0 /\ lastErr = NoErr /\ invocations = 0 /\ lastOutcome = NoErr
    /\ waits = 0 /\ ret = [out |-> FALSE, err |-> NoErr, exhausted |-> FALSE]
    /\ peer = [st |-> "none", attempt |-> 0]

\* the variables of parallelGatherLocalFiles
scanVars ==
    <<workerCount, dirErr, dirQueue, senders, dirWg, closed, wk, scanned, reads, resultErr,
      scanRet>>

\* the variables of the units that are applied on their own
unitVars == <<num, scanVars, patternCache, mg, mp, pool>>

\* no call of calculateDelay, calculatePartSize or executeItem: fn is the
\* function called, attempt the argument of calculateDelay, [mib, rem] the
\* fileSize of calculatePartSize or the Size of the item, and out the result
\* (-1: not returned yet), with outRem what a returned byte count has beyond
\* its whole MiB; of executeItem, key is the item's Key, sdk the requests the
\* AWS client was handed, in order, and err what executeItem returned
NoCall ==
    [fn |-> "none", attempt |-> 0, mib |-> 0, rem |-> 0, out |-> -1, outRem |-> 0,
     key |-> <<>>, sdk |-> <<>>, err |-> "nil"]

\* no error of os.ReadDir; an error is [kind, dir]: "perm" (os.IsPermission
\* holds of it) or "io", and the directory it is about
NoDirErr == [kind |-> "nil", dir |-> <<>>]

\* no scan runs
ScanIdle ==
    /\ workerCount = 0 /\ dirErr = <<>> /\ dirQueue = <<>> /\ senders = {} /\ dirWg = 0
    /\ closed = FALSE /\ wk = <<>> /\ scanned = <<>> /\ reads = <<>> /\ resultErr = NoDirErr
    /\ scanRet = [items |-> <<>>, err |-> NoDirErr]

\* no goroutine calls fnmatch
FnIdle == patternCache = <<>> /\ mg = <<>>

\* multipartUpload is not running: st is where it stands, size the size of the
\* file and pos the offset read so far, calls the calls made in their order,
\* object what the bucket holds under item.S3Key ("none", "old" for an object
\* stored before this upload, "new" for the file of this upload)
NoUpload ==
    [st |-> "none", size |-> 0, pos |-> 0, partNumber |-> 0, completedParts |-> <<>>,
     uploadErr |-> "nil", err |-> "nil", calls |-> <<>>, object |-> "none"]

\* no unit is applied
\* Pool.Execute is not running: st is where Execute stands, n the number of
\* items (an item is its index in the plan), sent how many it has sent, jobs
\* and results the buffers of the two channels, wk the workers ([st, item]),
\* ctxDone whether the context is cancelled, allResults what Execute returned
NoPool ==
    [st |-> "none", n |-> 0, concurrency |-> 0, ctxDone |-> FALSE, sent |-> 0,
     jobs |-> <<>>, jobsClosed |-> FALSE, wk |-> <<>>, results |-> <<>>,
     allResults |-> <<>>]

UnitsIdle == num = NoCall /\ ScanIdle /\ FnIdle /\ mp = NoUpload /\ pool = NoPool

\* the variables of a sync, which the client's wrappers and the units leave alone
syncVars ==
    <<fs, store, store0, prefix, excludes, deleteEnabled, dryRun, report, localFiles, s3Objects,
      phase1Result, checksums, items, calls, planCalls, results, exitCode, planErr,
      run>>

\* no report file is requested (--plan-json-file, --result-json-file) and
\* none has been written; plan and result hold what was written, if anything
NoReport == [planJSONFile |-> FALSE, resultJSONFile |-> FALSE, plan |-> <<>>, result |-> <<>>]

EmptyPhase1 ==
    [NewItems |-> <<>>, DeletedItems |-> <<>>, SizeMismatch |-> <<>>,
     NeedChecksum |-> <<>>, Identical |-> <<>>]

(***************************************************************************)
(* Inputs.                                                                 *)
(***************************************************************************)
Bucket == <<"k">>

\* source.Path, the local directory
LocalBase == <<"l">>

\* the checksums a file's content can have
Sums == {"X", "Y"}

\* the metadata lists with at most one entry for each of the paths, in the
\* order that sorts them by path (the callers permute them)
MetadataLists(paths, sums) ==
    LET metas(f) == {[Path |-> p, Size |-> f[p].Size, Checksum |-> f[p].Checksum] :
                        p \in DOMAIN f}
        sorted(S) == SortSlice(CHOOSE q \in Perms(S) : TRUE, RefPathLess)
    IN  UNION {{sorted(metas(f)) : f \in [D -> [Size : 1..MaxSize, Checksum : sums]]} :
                  D \in SUBSET paths}

\* the checksum lists Phase3GeneratePlan can be handed for the given items: at
\* most one entry per item (phase 2 gives one for each; a caller may give
\* fewer), the local checksum never empty (it is the encoding of 8 bytes), the
\* remote one possibly empty
ChecksumLists(refs) ==
    LET entry(i, f) ==
            [ItemRef |-> refs[i], SourceChecksum |-> f[i][1], DestChecksum |-> f[i][2]]
        nth(keep, k) == CHOOSE i \in keep : Cardinality({j \in keep : j < i}) = k - 1
    IN  UNION {{[k \in 1..Cardinality(keep) |-> entry(nth(keep, k), f)] :
                   f \in [keep -> Sums \X (Sums \cup {""})]} :
               keep \in SUBSET DOMAIN refs}

(***************************************************************************)
(* The pure phases applied to arbitrary inputs.                            *)
(***************************************************************************)
PureInit ==
    /\ pc = "pure"
    /\ \E side \in {[local  |-> {<<"a", ".", "t">>, <<"c">>},
                     remote |-> {<<"a", ".", "t">>, <<"c">>}],
                    [local  |-> {<<"a", ".", "t">>, <<"c">>},
                     remote |-> {<<"c">>, <<"d", "/", "b">>}]} :
         /\ localFiles \in MetadataLists(side.local, {"", "X"})
         /\ s3Objects \in MetadataLists(side.remote, Sums \cup {""})
    /\ deleteEnabled \in BOOLEAN
    /\ prefix = <<>>
    /\ phase1Result = EmptyPhase1
    /\ checksums = <<>>
    /\ items = <<>>
    /\ fs = <<>> /\ store = <<>> /\ store0 = <<>> /\ excludes = <<>>
    /\ dryRun = FALSE /\ report = NoReport /\ calls = {} /\ planCalls = <<>> /\ results = <<>> /\ exitCode = "none"
    /\ concurrency = 0 /\ gpc = <<>> /\ failing = {}
    /\ planErr = "nil" /\ run = 0
    /\ RetryIdle
    /\ UnitsIdle

\* the s3Prefix Plan passes to Phase3GeneratePlan
S3Prefix(pre) == IF pre # <<>> THEN Bucket \o <<"/">> \o pre ELSE Bucket

\* Phase1Compare applied to the two lists given in any order, its maps iterated
\* in any order
PurePhase1 ==
    /\ pc = "pure"
    /\ \E source \in SeqPerms(localFiles), dest \in SeqPerms(s3Objects) :
         \E srcOrder \in Perms(DOMAIN PathMap(source)),
            dstOrder \in Perms(DOMAIN PathMap(dest)) :
            phase1Result' = Phase1Compare(source, dest, deleteEnabled, srcOrder, dstOrder)
    /\ pc' = "pure1"
    /\ UNCHANGED <<localFiles, s3Objects, deleteEnabled, prefix, checksums, items>>
    /\ UNCHANGED runVars
    /\ UNCHANGED retryVars
    /\ UNCHANGED unitVars

\* Phase3GeneratePlan applied to the phase-1 lists and to a checksum list for
\* NeedChecksum, each given in any order, for a destination with or without a
\* prefix
PurePhase3 ==
    /\ pc = "pure1"
    /\ prefix' \in {<<>>, <<"p">>}
    /\ \E cs \in ChecksumLists(phase1Result.NeedChecksum) :
         /\ checksums' = cs
         /\ \E n \in SeqPerms(phase1Result.NewItems),
               d \in SeqPerms(phase1Result.DeletedItems),
               m \in SeqPerms(phase1Result.SizeMismatch),
               c \in SeqPerms(phase1Result.NeedChecksum),
               i \in SeqPerms(phase1Result.Identical),
               csIn \in SeqPerms(cs) :
               items' = Phase3GeneratePlan(
                            [NewItems |-> n, DeletedItems |-> d, SizeMismatch |-> m,
                             NeedChecksum |-> c, Identical |-> i],
                            csIn, LocalBase, S3Prefix(prefix'))
    /\ pc' = "pure3"
    /\ UNCHANGED <<localFiles, s3Objects, deleteEnabled, phase1Result>>
    /\ UNCHANGED runVars
    /\ UNCHANGED retryVars
    /\ UNCHANGED unitVars

SpecPure == PureInit /\ [][PurePhase1 \/ PurePhase3]_vars


(***************************************************************************)
(* Exclusion (IsExcluded) and the collaborators of Plan.                   *)
(***************************************************************************)
RECURSIVE Match(_, _)
\* doublestar.Match for patterns of literal characters, "*" and "**" (the
\* latter as a whole path element): "*" matches any run of characters other
\* than "/", "**" any run of characters, and "**/" also nothing at all
Match(pattern, name) ==
    IF pattern = <<>> THEN name = <<>>
    ELSE IF Head(pattern) = "*" /\ Len(pattern) >= 2 /\ pattern[2] = "*"
    THEN LET rest == SubSeq(pattern, 3, Len(pattern))
         IN  \/ \E k \in 0..Len(name) : Match(rest, SubSeq(name, k + 1, Len(name)))
             \/ rest # <<>> /\ Head(rest) = "/" /\ Match(Tail(rest), name)
    ELSE IF Head(pattern) = "*"
    THEN \E k \in 0..Len(name) :
            /\ \A j \in 1..k : name[j] # "/"
            /\ Match(Tail(pattern), SubSeq(name, k + 1, Len(name)))
    ELSE name # <<>> /\ Head(name) = Head(pattern) /\ Match(Tail(pattern), Tail(name))

\* IsExcluded: the path matches one of the patterns
IsExcluded(path, patterns) ==
    \E i \in DOMAIN patterns : Match(patterns[i], path)

\* doublestar.Match returns ErrBadPattern for a pattern with a "[" that no "]"
\* closes
BadPattern(pattern) ==
    \E i \in DOMAIN pattern :
        pattern[i] = "[" /\ \A j \in (i + 1)..Len(pattern) : pattern[j] # "]"

\* the error of IsExcluded: the loop reaches a bad pattern before a pattern
\* that matches the path
IsExcludedErr(path, patterns) ==
    \E i \in DOMAIN patterns :
        /\ BadPattern(patterns[i])
        /\ \A j \in 1..(i - 1) : ~BadPattern(patterns[j]) /\ ~Match(patterns[j], path)

RECURSIVE SegsLess(_, _)
\* the order in which filepath.Walk reaches two paths, given as segments: it
\* reads each directory in the order of the file names
SegsLess(a, b) ==
    IF b = <<>> THEN FALSE
    ELSE IF a = <<>> THEN TRUE
    ELSE IF Head(a) # Head(b) THEN StrLess(Head(a), Head(b))
    ELSE SegsLess(Tail(a), Tail(b))

\* gatherLocalFiles: the files of the tree that no pattern excludes, in the
\* order of the walk, without a checksum
gatherLocalFiles(tree, patterns) ==
    LET kept == {p \in DOMAIN tree : ~IsExcluded(p, patterns)}
        meta(p) == [Path |-> p, Size |-> tree[p].Size, Checksum |-> ""]
        WalkLess(r1, r2) == SegsLess(SplitSlash(r1.Path), SplitSlash(r2.Path))
    IN  IF kept = {} THEN <<>>
        ELSE SortSlice(MapSeq(CHOOSE q \in Perms(kept) : TRUE, meta), WalkLess)

\* AWSClient.ListObjects: the objects whose key starts with the prefix, in the
\* order of their keys; Path is the key with prefix + "/" trimmed when the
\* prefix is not empty; no Checksum is set
ListObjects(st, pre) ==
    LET keys == {k \in DOMAIN st : HasPrefix(k, pre)}
        meta(k) == [Path |-> IF pre # <<>> THEN TrimPrefix(k, pre \o <<"/">>) ELSE k,
                    Size |-> st[k].Size, Checksum |-> ""]
        byKey(k1, k2) == StrLess(k1, k2)
    IN  IF keys = {} THEN <<>>
        ELSE MapSeq(SortSlice(CHOOSE q \in Perms(keys) : TRUE, byKey), meta)

\* Plan without that loop: every listed object is compared
FilterExcluded_None(objs, patterns) == objs

\* the loop of Plan that copies the listed objects no pattern excludes
FilterExcluded(objs, patterns) ==
    SelectSeq(objs, LAMBDA obj : ~IsExcluded(obj.Path, patterns))

\* the file os.Open(localPath) opens: the relative path of the tree that
\* localPath names, none when there is no such file
OpenFile(tree, localPath) ==
    {p \in DOMAIN tree : Join(LocalBase, p) = localPath}

\* calculateFileChecksum: the checksum of the file's content ("" with an error
\* when the file cannot be opened)
calculateFileChecksum(tree, localPath) ==
    IF OpenFile(tree, localPath) = {} THEN [err |-> TRUE, sum |-> ""]
    ELSE [err |-> FALSE, sum |-> tree[CHOOSE p \in OpenFile(tree, localPath) : TRUE].Sum]

\* AWSClient.HeadObject: the recorded checksum of the object, an error when
\* there is no object with the key
HeadObject(st, key) ==
    IF key \in DOMAIN st THEN [err |-> FALSE, Checksum |-> st[key].Checksum]
    ELSE [err |-> TRUE, Checksum |-> ""]

\* a round that issues its HeadObject twice
Phase2Append_Twice(cd, s3Key, rest) ==
    [err       |-> rest.err,
     checksums |-> IF rest.err THEN <<>> ELSE <<cd>> \o rest.checksums,
     heads     |-> <<s3Key, s3Key>> \o rest.heads]

\* the loop with "return checksums, err": what was collected is returned with
\* the error
Phase2Append_Partial(cd, s3Key, rest) ==
    [err       |-> rest.err,
     checksums |-> <<cd>> \o rest.checksums,
     heads     |-> <<s3Key>> \o rest.heads]

\* the loop with each entry put in front of the list
Phase2Append_Prepend(cd, s3Key, rest) ==
    [err       |-> rest.err,
     checksums |-> IF rest.err THEN <<>> ELSE rest.checksums \o <<cd>>,
     heads     |-> <<s3Key>> \o rest.heads]

\* one round of the loop that went well, before the rounds that follow it:
\* "checksums = append(checksums, cd)", and "return nil, err" when a later
\* round fails
Phase2Append(cd, s3Key, rest) ==
    [err       |-> rest.err,
     checksums |-> IF rest.err THEN <<>> ELSE <<cd>> \o rest.checksums,
     heads     |-> <<s3Key>> \o rest.heads]

RECURSIVE Phase2CollectChecksums(_, _, _, _)
\* Phase2CollectChecksums: for each item in turn the local checksum, then
\* HeadObject of path.Join(prefix, item.Path); the first error ends it with no
\* list.  heads are the keys HeadObject was called with.
Phase2CollectChecksums(tree, st, refs, pre) ==
    IF refs = <<>> THEN [err |-> FALSE, checksums |-> <<>>, heads |-> <<>>]
    ELSE LET item  == Head(refs)
             local == calculateFileChecksum(tree, Join(LocalBase, item.Path))
             s3Key == Join(pre, item.Path)
             head  == HeadObject(st, s3Key)
         IN  IF local.err THEN [err |-> TRUE, checksums |-> <<>>, heads |-> <<>>]
             ELSE IF head.err THEN [err |-> TRUE, checksums |-> <<>>, heads |-> <<s3Key>>]
             ELSE Phase2Append([ItemRef |-> item, SourceChecksum |-> local.sum,
                                DestChecksum |-> head.Checksum],
                               s3Key,
                               Phase2CollectChecksums(tree, st, Tail(refs), pre))

\* the last loop of Plan: every upload item gets the checksum of its file
WithUploadChecksums(tree, plan) ==
    [i \in DOMAIN plan |->
        IF plan[i].Action = ActionUpload
        THEN [plan[i] EXCEPT !.Checksum = calculateFileChecksum(tree, plan[i].LocalPath).sum]
        ELSE plan[i]]

\* the same loop fails when the file of an upload item cannot be read
UploadChecksumFails(tree, plan) ==
    \E i \in DOMAIN plan :
        /\ plan[i].Action = ActionUpload
        /\ calculateFileChecksum(tree, plan[i].LocalPath).err

Call(op, key) == [op |-> op, key |-> key]

(***************************************************************************)
(* The run: Plan, then Execute unless the plan is empty or --dryrun is set.*)
(***************************************************************************)
\* the files a local tree can hold
Contents == {[Size |-> 1, Sum |-> "X"], [Size |-> MaxSize, Sum |-> "Y"]}

\* the relative paths of a run: "a.t" and "d/b"
RunPaths == {<<"a", ".", "t">>, <<"d", "/", "b">>}

\* parseS3URI: the URI without "s3://", cut at its first "/": the bucket
\* before it and the prefix, as written, after it
parseS3URI(uri) ==
    LET scheme == <<"s", "3", ":", "/", "/">>
        segs   == SplitSlash(TrimPrefix(uri, scheme))
    IN  [err    |-> ~HasPrefix(uri, scheme) \/ segs[1] = <<>>,
         bucket |-> segs[1],
         prefix |-> IF Len(segs) > 1 THEN JoinSlash(Tail(segs)) ELSE <<>>]

\* the exclude lists of a run: none, "*.t", "*.t" with "d/**", and the
\* malformed "["
ExcludeLists ==
    {<<>>, << <<"*", ".", "t">> >>, << <<"*", ".", "t">>, <<"d", "/", "*", "*">> >>,
     << <<"[">> >>}

\* the key of the object that stands for the relative path under the prefix
KeyUnder(pre, path) == Join(pre, path)

Init ==
    /\ pc = "start"
    /\ \E D \in SUBSET RunPaths : fs \in [D -> Contents]
    /\ \E uri \in {<<"s", "3", ":", "/", "/", "k">>,
                    <<"s", "3", ":", "/", "/", "k", "/", "p">>,
                    <<"s", "3", ":", "/", "/", "k", "/", "p", "/">>} :
         prefix = parseS3URI(uri).prefix
    /\ \E D \in SUBSET RunPaths :
         store \in [{KeyUnder(prefix, p) : p \in D} ->
                       [Size : 1..MaxSize, Checksum : {"X", ""}]]
    /\ store0 = store
    /\ excludes \in ExcludeLists
    /\ deleteEnabled \in BOOLEAN
    /\ dryRun \in BOOLEAN
    /\ \E plan, result \in BOOLEAN :
         report = [NoReport EXCEPT !.planJSONFile = plan, !.resultJSONFile = result]
    /\ localFiles = <<>> /\ s3Objects = <<>> /\ phase1Result = EmptyPhase1
    /\ checksums = <<>> /\ items = <<>> /\ calls = {} /\ planCalls = <<>> /\ results = <<>>
    /\ exitCode = "none"
    /\ concurrency = 0 /\ gpc = <<>> /\ failing = {}
    /\ planErr = "nil" /\ run = 1
    /\ RetryIdle
    /\ UnitsIdle

\* the tree in which no file can be opened, the bucket in which no call succeeds
Unreadable == <<>>

Unreachable == <<>>

\* "return items, nil" with the items kept after an error
PlanReturn_KeepItems(err, plan) == plan

\* what Plan returns: "return nil, err" after an error, "return items, nil"
\* otherwise
PlanReturn(err, plan) == IF err # "nil" THEN <<>> ELSE plan

\* FSToS3Planner.Plan as run calls it: gatherLocalFiles, ListObjects, the
\* exclusion of listed objects, the three phases and the checksums of the
\* uploads, each stage returning at its first error; an error of Plan ends the
\* run with a non-zero exit status.  (A local of Plan is bound by a quantifier
\* over a one-element set.)
Plan ==
    /\ pc = "start"
    /\ \E badWalk \in {\E p \in DOMAIN fs : IsExcludedErr(p, excludes)} :
       \E lf \in {IF badWalk THEN <<>> ELSE gatherLocalFiles(fs, excludes)} :
       \E listed \in {IF badWalk THEN <<>> ELSE ListObjects(store, prefix)} :
       \E exclErr \in {\E i \in DOMAIN listed : IsExcludedErr(listed[i].Path, excludes)} :
       \E objs \in {IF exclErr THEN <<>> ELSE FilterExcluded(listed, excludes)} :
       \E srcOrder \in Perms(DOMAIN PathMap(lf)), dstOrder \in Perms(DOMAIN PathMap(objs)) :
       \E p1 \in {Phase1Compare(lf, objs, deleteEnabled, srcOrder, dstOrder)} :
       \E p2 \in {Phase2CollectChecksums(fs, store, p1.NeedChecksum, prefix)} :
       \E plan \in {Phase3GeneratePlan(p1, p2.checksums, LocalBase, S3Prefix(prefix))} :
       \* what can go wrong outside the program while Plan runs: the walk of
       \* the local tree fails, ListObjects fails, HeadObject fails, the files
       \* cannot be read when phase 2 begins ("read"), or when the uploads of
       \* the plan get their checksums ("reread")
       \E fault \in {"none", "walk", "list", "head", "read", "reread"} :
       \E walkErr \in {badWalk \/ fault = "walk"} :
       \E early \in {walkErr \/ fault = "list" \/ exclErr} :
       \E phase2 \in {IF fault = "read"
                      THEN Phase2CollectChecksums(Unreadable, store, p1.NeedChecksum, prefix)
                      ELSE IF fault = "head"
                      THEN Phase2CollectChecksums(fs, Unreachable, p1.NeedChecksum, prefix)
                      ELSE p2} :
       \E tree3 \in {IF fault = "reread" THEN Unreadable ELSE fs} :
       \E err \in {IF walkErr THEN "gather"
                   ELSE IF fault = "list" THEN "list"
                   ELSE IF exclErr THEN "exclude"
                   ELSE IF phase2.err THEN "collect"
                   ELSE IF UploadChecksumFails(tree3, plan) THEN "calculate"
                   ELSE "nil"} :
         /\ planErr' = err
         /\ localFiles' = IF walkErr THEN <<>> ELSE lf
         /\ s3Objects' = IF early THEN <<>> ELSE objs
         /\ phase1Result' = IF early THEN EmptyPhase1 ELSE p1
         /\ checksums' = IF early THEN <<>> ELSE phase2.checksums
         /\ calls' = calls
               \cup (IF walkErr THEN {} ELSE {Call("ListObjects", prefix)})
               \cup (IF early THEN {} ELSE {Call("HeadObject", k) : k \in Range(phase2.heads)})
         /\ planCalls' = (IF walkErr THEN <<>> ELSE <<Call("ListObjects", prefix)>>)
               \o (IF early THEN <<>>
                   ELSE [i \in DOMAIN phase2.heads |-> Call("HeadObject", phase2.heads[i])])
         /\ items' = PlanReturn(err, WithUploadChecksums(tree3, plan))
         /\ pc' = IF err # "nil" THEN "done" ELSE "planned"
         /\ exitCode' = IF err # "nil" THEN 1 ELSE exitCode
    /\ UNCHANGED <<fs, store, store0, prefix, excludes, deleteEnabled, dryRun, report, results,
                   run>>
    /\ UNCHANGED execVars
    /\ UNCHANGED retryVars
    /\ UNCHANGED unitVars

\* run without its "if dryRun" return
ShouldExecute_IgnoreDryRun(plan, dry) == Len(plan) # 0

\* run goes on to Execute only with a plan that is not empty and without --dryrun
ShouldExecute(plan, dry) == Len(plan) # 0 /\ ~dry

\* Item{}, the zero value
ZeroItem ==
    [Action |-> <<>>, LocalPath |-> <<>>, S3Key |-> <<>>, Size |-> 0, Reason |-> "",
     Checksum |-> ""]

\* Result{Item: itm, Error: err}; err is "nil" or "error"
Result(itm, err) == [Item |-> itm, Error |-> err]

\* make([]Result, len(items)): one zero Result per item
MakeResults(plan) == [i \in DOMAIN plan |-> Result(ZeroItem, "nil")]

\* the start of Execute: the result slice, and one goroutine per item, each
\* about to acquire the semaphore
StartExecute ==
    /\ results' = MakeResults(items)
    /\ gpc' = [i \in DOMAIN items |-> "wait"]

\* a run that reports every upload as a creation
getUploadActionName_AlwaysCreate(reason) == "create"

getUploadActionName(reason) == IF reason = "new file" THEN "create" ELSE "update"

formatS3Path(s3Key) == <<"s", "3", ":", "/", "/">> \o s3Key

\* the PlanResult that writePlanResult marshals
PlanResult(plan) ==
    LET action(item) == IF item.Action = ActionUpload THEN getUploadActionName(item.Reason)
                        ELSE IF item.Action = ActionDelete THEN "delete" ELSE "skip"
        count(a) == Cardinality({i \in DOMAIN plan : action(plan[i]) = a})
    IN  [Files   |-> [i \in DOMAIN plan |->
                        [Action |-> action(plan[i]), Target |-> formatS3Path(plan[i].S3Key),
                         Reason |-> plan[i].Reason]],
         Summary |-> [Skip |-> count("skip"), Create |-> count("create"),
                      Update |-> count("update"), Delete |-> count("delete")]]

\* "if planJSONFile != "" { writePlanResult(planJSONFile, items) }"
writePlanResult(rep, plan) ==
    IF rep.planJSONFile THEN [rep EXCEPT !.plan = <<PlanResult(plan)>>] ELSE rep

\* "if resultJSONFile != "" { writeSyncResult(resultJSONFile, result) }"
writeSyncResult(rep, result) ==
    IF rep.resultJSONFile THEN [rep EXCEPT !.result = <<result>>] ELSE rep

\* the SyncResult that run builds from the results of Execute, in their order
SyncResult(res) ==
    LET uploaded(r) == r.Item.Action = ActionUpload
        past(r)  == IF uploaded(r)
                    THEN IF getUploadActionName(r.Item.Reason) = "create"
                         THEN "created" ELSE "updated"
                    ELSE IF r.Item.Action = ActionDelete THEN "deleted" ELSE "skipped"
        name(r)  == IF uploaded(r) THEN getUploadActionName(r.Item.Reason)
                    ELSE IF r.Item.Action = ActionDelete THEN "delete" ELSE "skip"
        good     == SelectSeq(res, LAMBDA r : r.Error = "nil")
        bad      == SelectSeq(res, LAMBDA r : r.Error # "nil")
        count(a) == Cardinality({i \in DOMAIN good : past(good[i]) = a})
    IN  [Files   |-> [i \in DOMAIN good |->
                        [Action |-> past(good[i]), Target |-> formatS3Path(good[i].Item.S3Key)]],
         Errors  |-> [i \in DOMAIN bad |->
                        [Action |-> name(bad[i]), Target |-> formatS3Path(bad[i].Item.S3Key),
                         Error |-> bad[i].Error]],
         Summary |-> [Skipped |-> count("skipped"), Created |-> count("created"),
                      Updated |-> count("updated"), Deleted |-> count("deleted"),
                      Failed |-> Len(bad)]]

\* run after Plan: write the plan file if one is requested; return at once
\* for an empty plan (after writing an empty result file if one is requested
\* and the run is not a dry run) and for a dry run, otherwise start Execute
Dispatch ==
    /\ pc = "planned"
    /\ report' = IF Len(items) = 0 /\ ~dryRun
                 THEN writeSyncResult(writePlanResult(report, items), SyncResult(<<>>))
                 ELSE writePlanResult(report, items)
    /\ IF ShouldExecute(items, dryRun)
       THEN /\ pc' = "executing"
            /\ StartExecute
            /\ exitCode' = exitCode
       ELSE /\ pc' = "done"
            /\ UNCHANGED <<results, gpc>>
            /\ exitCode' = 0
    /\ UNCHANGED <<concurrency, failing>>
    /\ UNCHANGED <<fs, store, store0, prefix, excludes, deleteEnabled, dryRun,
                   localFiles, s3Objects, phase1Result, checksums, items, calls, planCalls>>
    /\ UNCHANGED <<planErr, run>>
    /\ UNCHANGED retryVars
    /\ UNCHANGED unitVars

\* parseS3Key: the bucket is what precedes the first "/", the key what follows
parseS3Key(s3Key) ==
    LET segs == SplitSlash(s3Key)
    IN  [err    |-> Len(segs) < 2,
         bucket |-> segs[1],
         key    |-> IF Len(segs) < 2 THEN <<>> ELSE JoinSlash(Tail(segs))]

\* the bucket after a successful PutObject of the file: the object carries the
\* file's size and the checksum of its content
PutObject(st, key, file) ==
    [k \in DOMAIN st \cup {key} |->
        IF k = key THEN [Size |-> file.Size, Checksum |-> file.Sum] ELSE st[k]]

\* the bucket after a successful DeleteObject
DeleteObject(st, key) == [k \in DOMAIN st \ {key} |-> st[k]]

\* the write with the loop's index read after the loop has ended: every
\* goroutine writes the last slot
WriteResult_LastSlot(res, idx, itm, err) == [res EXCEPT ![Len(res)] = Result(itm, err)]

\* the goroutine's "results[idx] = Result{Item: itm, Error: err}"
WriteResult(res, idx, itm, err) == [res EXCEPT ![idx] = Result(itm, err)]

\* Executor.uploadFile for the goroutine of item i, with the goroutine's write
\* of the outcome: open the file, parse the key, PutObject; remoteOk is whether
\* the remote call succeeds
uploadFile(i, remoteOk) ==
    LET item   == items[i]
        opened == OpenFile(fs, item.LocalPath)
        target == parseS3Key(item.S3Key)
    IN  IF opened = {} \/ target.err
        THEN /\ results' = WriteResult(results, i, items[i], "error")
             /\ UNCHANGED <<store, calls>>
        ELSE /\ calls' = calls \cup {Call("PutObject", target.key)}
             /\ store' = IF remoteOk
                         THEN PutObject(store, target.key, fs[CHOOSE p \in opened : TRUE])
                         ELSE store
             /\ results' = WriteResult(results, i, items[i],
                                        IF remoteOk THEN "nil" ELSE "error")

\* deleteObject that drops the error of the DeleteObject call
deleteObject_IgnoreError(i, remoteOk) ==
    LET target == parseS3Key(items[i].S3Key)
    IN  IF target.err
        THEN /\ results' = WriteResult(results, i, items[i], "error")
             /\ UNCHANGED <<store, calls>>
        ELSE /\ calls' = calls \cup {Call("DeleteObject", target.key)}
             /\ store' = IF remoteOk THEN DeleteObject(store, target.key) ELSE store
             /\ results' = WriteResult(results, i, items[i], "nil")

\* Executor.deleteObject for the goroutine of item i, with the goroutine's
\* write of the outcome: parse the key, DeleteObject
deleteObject(i, remoteOk) ==
    LET target == parseS3Key(items[i].S3Key)
    IN  IF target.err
        THEN /\ results' = WriteResult(results, i, items[i], "error")
             /\ UNCHANGED <<store, calls>>
        ELSE /\ calls' = calls \cup {Call("DeleteObject", target.key)}
             /\ store' = IF remoteOk THEN DeleteObject(store, target.key) ELSE store
             /\ results' = WriteResult(results, i, items[i],
                                        IF remoteOk THEN "nil" ELSE "error")

\* Executor.executeItem for the goroutine of item i, with the goroutine's write
\* of the outcome
executeItem(i, remoteOk) ==
    IF items[i].Action = ActionUpload THEN uploadFile(i, remoteOk)
    ELSE IF items[i].Action = ActionDelete THEN deleteObject(i, remoteOk)
    ELSE /\ results' = WriteResult(results, i, items[i], "nil")
         /\ UNCHANGED <<store, calls>>

\* one goroutine of Executor.Execute from start to end: executeItem for its
\* item and the result written to the item's slot; the goroutines run in any
\* order (the semaphore only limits how many run at a time)
ExecuteItem ==
    /\ pc = "executing"
    /\ \E i \in DOMAIN items, remoteOk \in BOOLEAN :
         /\ gpc[i] = "wait"
         /\ executeItem(i, remoteOk)
         /\ gpc' = [gpc EXCEPT ![i] = "done"]
    /\ UNCHANGED <<pc, fs, store0, prefix, excludes, deleteEnabled, dryRun, report, localFiles,
                   s3Objects, phase1Result, checksums, items, exitCode, concurrency, failing>>
    /\ UNCHANGED <<planCalls, planErr, run>>
    /\ UNCHANGED retryVars
    /\ UNCHANGED unitVars

\* run that returns nil whatever the results are
ExitStatus_AlwaysZero(res) == 0

\* the end of run: "failed" counts the results that carry an error, and run
\* returns an error (exit status 1) when failed > 0
ExitStatus(res) ==
    IF Cardinality({i \in DOMAIN res : res[i].Error # "nil"}) > 0 THEN 1 ELSE 0

\* run after Execute has returned: the result file if one is requested, and
\* a non-zero exit status when a result carries an error
Finish ==
    /\ pc = "executing"
    /\ \A i \in DOMAIN gpc : gpc[i] = "done"
    /\ pc' = "done"
    /\ report' = writeSyncResult(report, SyncResult(results))
    /\ exitCode' = ExitStatus(results)
    /\ UNCHANGED <<fs, store, store0, prefix, excludes, deleteEnabled, dryRun, localFiles,
                   s3Objects, phase1Result, checksums, items, calls, planCalls, results>>
    /\ UNCHANGED execVars
    /\ UNCHANGED <<planErr, run>>
    /\ UNCHANGED retryVars
    /\ UNCHANGED unitVars

Spec == Init /\ [][Plan \/ Dispatch \/ ExecuteItem \/ Finish]_vars

\* the command is started again with the same arguments after a run that
\* ended with exit status 0 and was no dry run: the local tree is what it was,
\* the bucket is what the first run left, and everything run and Plan build
\* starts empty; store0 is the bucket at the start of this run
RunAgain ==
    /\ pc = "done" /\ exitCode = 0 /\ ~dryRun
    /\ run = 1
    /\ run' = 2
    /\ pc' = "start"
    /\ store0' = store
    /\ report' = [report EXCEPT !.plan = <<>>, !.result = <<>>]
    /\ localFiles' = <<>> /\ s3Objects' = <<>> /\ phase1Result' = EmptyPhase1
    /\ checksums' = <<>> /\ items' = <<>> /\ calls' = {} /\ planCalls' = <<>>
    /\ results' = <<>> /\ exitCode' = "none" /\ gpc' = <<>> /\ planErr' = "nil"
    /\ UNCHANGED <<fs, store, prefix, excludes, deleteEnabled, dryRun, concurrency, failing>>
    /\ UNCHANGED retryVars
    /\ UNCHANGED unitVars

\* two runs of the command, one after the other
SpecAgain == Init /\ [][Plan \/ Dispatch \/ ExecuteItem \/ Finish \/ RunAgain]_vars

(***************************************************************************)
(* Phase2CollectChecksums applied to arbitrary item lists.                 *)
(***************************************************************************)
\* the relative paths of the items: "a.t", "c" and "d/b"
Phase2Paths == RunPaths \cup {<<"c">>}

\* any tree and any bucket over those paths (a file or an object may be
\* missing), with or without a prefix, and any item list
Phase2Init ==
    /\ pc = "phase2"
    /\ \E D \in SUBSET Phase2Paths : fs \in [D -> Contents]
    /\ prefix \in {<<>>, <<"p">>}
    /\ \E D \in SUBSET Phase2Paths :
         store \in [{KeyUnder(prefix, p) : p \in D} -> [Size : {1}, Checksum : {"X", ""}]]
    /\ store0 = store
    /\ \E D \in SUBSET Phase2Paths : \E q \in Perms(D) :
         phase1Result = [EmptyPhase1 EXCEPT
                           !.NeedChecksum = [i \in DOMAIN q |-> ItemRef(q[i], 1)] \o <<>>]
    /\ localFiles = <<>> /\ s3Objects = <<>> /\ checksums = <<>> /\ items = <<>>
    /\ excludes = <<>> /\ deleteEnabled = FALSE /\ dryRun = FALSE /\ report = NoReport
    /\ calls = {} /\ planCalls = <<>> /\ results = <<>> /\ exitCode = "none"
    /\ concurrency = 0 /\ gpc = <<>> /\ failing = {}
    /\ planErr = "nil" /\ run = 0
    /\ RetryIdle
    /\ UnitsIdle

\* one call of Phase2CollectChecksums with the item list: its list, its error
\* ("collect", as Plan reports it) and the HeadObject calls it has issued
Phase2Apply ==
    /\ pc = "phase2"
    /\ \E r \in {Phase2CollectChecksums(fs, store, phase1Result.NeedChecksum, prefix)} :
         /\ checksums' = r.checksums
         /\ planErr' = IF r.err THEN "collect" ELSE "nil"
         /\ calls' = {Call("HeadObject", k) : k \in Range(r.heads)}
         /\ planCalls' = [i \in DOMAIN r.heads |-> Call("HeadObject", r.heads[i])]
    /\ pc' = "phase2done"
    /\ UNCHANGED <<fs, store, store0, prefix, excludes, deleteEnabled, dryRun, report, localFiles,
                   s3Objects, phase1Result, items, results, exitCode, run>>
    /\ UNCHANGED execVars
    /\ UNCHANGED retryVars
    /\ UNCHANGED unitVars

SpecPhase2 == Phase2Init /\ [][Phase2Apply]_vars

(***************************************************************************)
(* Executor.Execute with its goroutines and its semaphore.                 *)
(***************************************************************************)
\* the concurrency NewExecutor uses when it is given none
DefaultConcurrency == 32

\* NewExecutor: the capacity of the semaphore
NewExecutor(c) == IF c <= 0 THEN DefaultConcurrency ELSE c

\* the goroutines that hold the semaphore
Running(g) == {i \in DOMAIN g : g[i] = "run"}

\* "sem <- struct{}{}" without a bound: the send never blocks
SemHasRoom_Unbounded(g, c) == TRUE

\* "sem <- struct{}{}" returns only while the channel, of capacity
\* e.concurrency, is not full
SemHasRoom(g, c) == Cardinality(Running(g)) < NewExecutor(c)

\* before the executor is made: a bucket with objects at "c" and "d/b"
ExecInit ==
    /\ pc = "new"
    /\ store = [k \in {<<"c">>, <<"d", "/", "b">>} |-> [Size |-> 1, Checksum |-> "X"]]
    /\ store0 = store
    /\ fs = <<>> /\ items = <<>> /\ results = <<>> /\ gpc = <<>>
    /\ concurrency = 0 /\ failing = {}
    /\ prefix = <<>> /\ excludes = <<>> /\ deleteEnabled = TRUE /\ dryRun = FALSE /\ report = NoReport
    /\ localFiles = <<>> /\ s3Objects = <<>> /\ phase1Result = EmptyPhase1
    /\ checksums = <<>> /\ calls = {} /\ planCalls = <<>> /\ exitCode = "none"
    /\ planErr = "nil" /\ run = 0
    /\ RetryIdle
    /\ UnitsIdle

\* NewExecutor with any concurrency and the start of Execute with any plan,
\* over a tree that holds the files of the uploads or lacks some, and with any
\* set of items whose remote call is going to fail
ExecStart ==
    /\ pc = "new"
    /\ pc' = "executing"
    /\ \E S \in SUBSET
               {DeleteItem(ItemRef(<<"c">>, 1), Bucket),
                UploadItem(ItemRef(<<"a", ".", "t">>, 1), "new file", LocalBase, Bucket),
                UploadItem(ItemRef(<<"d", "/", "b">>, MaxSize), "size differs", LocalBase,
                           Bucket)} :
         items' = SortSlice(CHOOSE q \in Perms(S) : TRUE, ItemLess)
    /\ \E D \in SUBSET RunPaths : fs' = [p \in D |-> [Size |-> MaxSize, Sum |-> "Y"]]
    /\ concurrency' \in (0 - 1)..MaxConcurrency
    /\ failing' \in SUBSET DOMAIN items'
    /\ results' = MakeResults(items')
    /\ gpc' = [i \in DOMAIN items' |-> "wait"]
    /\ UNCHANGED <<store, store0, prefix, excludes, deleteEnabled, dryRun, report, localFiles,
                   s3Objects, phase1Result, checksums, calls, planCalls, exitCode>>
    /\ UNCHANGED <<planErr, run>>
    /\ UNCHANGED retryVars
    /\ UNCHANGED unitVars

\* a goroutine gets past "sem <- struct{}{}"
ExecAcquire ==
    /\ pc = "executing"
    /\ \E i \in DOMAIN items :
         /\ gpc[i] = "wait"
         /\ SemHasRoom(gpc, concurrency)
         /\ gpc' = [gpc EXCEPT ![i] = "run"]
    /\ UNCHANGED <<pc, fs, store, store0, prefix, excludes, deleteEnabled, dryRun, report,
                   localFiles, s3Objects, phase1Result, checksums, items, calls, planCalls, results,
                   exitCode, concurrency, failing>>
    /\ UNCHANGED <<planErr, run>>
    /\ UNCHANGED retryVars
    /\ UNCHANGED unitVars

\* a goroutine that holds the semaphore runs executeItem, writes its result,
\* and with its deferred calls releases the semaphore and the WaitGroup
ExecPerform ==
    /\ pc = "executing"
    /\ \E i \in DOMAIN items :
         /\ gpc[i] = "run"
         /\ executeItem(i, i \notin failing)
         /\ gpc' = [gpc EXCEPT ![i] = "done"]
    /\ UNCHANGED <<pc, fs, store0, prefix, excludes, deleteEnabled, dryRun, report, localFiles,
                   s3Objects, phase1Result, checksums, items, exitCode, concurrency, failing>>
    /\ UNCHANGED <<planCalls, planErr, run>>
    /\ UNCHANGED retryVars
    /\ UNCHANGED unitVars

\* wg.Wait() returns once every goroutine is done, and Execute returns results
ExecReturn ==
    /\ pc = "executing"
    /\ \A i \in DOMAIN gpc : gpc[i] = "done"
    /\ pc' = "returned"
    /\ UNCHANGED <<fs, store, store0, prefix, excludes, deleteEnabled, dryRun, report, localFiles,
                   s3Objects, phase1Result, checksums, items, calls, planCalls, results, exitCode>>
    /\ UNCHANGED execVars
    /\ UNCHANGED <<planErr, run>>
    /\ UNCHANGED retryVars
    /\ UNCHANGED unitVars

SpecExec == ExecInit /\ [][ExecStart \/ ExecAcquire \/ ExecPerform \/ ExecReturn]_vars

(***************************************************************************)
(* The retry wrappers of the S3 client (internal/s3client):                *)
(* headObjectWithRetry, putObjectWithRetry, deleteObjectWithRetry.         *)
(***************************************************************************)
defaultMaxRetries == 5

\* Client.maxRetries as NewClient sets it
maxRetries == defaultMaxRetries

ApiError(code, status) ==
    [api |-> TRUE, code |-> code, status |-> status, net |-> "nil", notFound |-> FALSE]

NetError(net) ==
    [api |-> FALSE, code |-> "", status |-> 0, net |-> net, notFound |-> FALSE]

\* ctx.Err() of a cancelled context
CtxErr == NetError("canceled")

\* the transient errors an operation gives: throttling, a 5xx response, a
\* request timeout, a deadline, an unexpected EOF (the last also inside an
\* APIError that has no status)
TransientErrors ==
    {ApiError("SlowDown", 503), ApiError("InternalError", 500),
     ApiError("RequestTimeout", 400), NetError("deadline"), NetError("eof"),
     [ApiError("Unknown", 0) EXCEPT !.net = "eof"]}

\* the other errors an operation gives: access denied, not found (a
\* *types.NotFound), an invalid request, an error that is none of the SDK's,
\* and a 4xx APIError that wraps a deadline
PermanentErrors ==
    {ApiError("AccessDenied", 403),
     [ApiError("NotFound", 404) EXCEPT !.notFound = TRUE],
     ApiError("InvalidRequest", 400), NetError("nil"),
     [ApiError("BadRequest", 400) EXCEPT !.net = "deadline"]}

\* isRetryableError with every error taken as retryable
isRetryableError_All(err) == TRUE

\* Client.isRetryableError
isRetryableError(err) ==
    IF err.api /\ err.code \in {"SlowDown", "ServiceUnavailable", "RequestTimeout",
                                "RequestTimeoutException"}
    THEN TRUE
    ELSE IF err.api /\ err.status # 0
    THEN err.status >= 500 /\ err.status < 600
    ELSE err.net \in {"deadline", "eof"}

\* the loop with "attempt < c.maxRetries" for its condition
MoreAttempts_OneLess(n) == n < maxRetries

\* the condition of the wrappers' loop: "attempt <= c.maxRetries"
MoreAttempts(n) == n <= maxRetries

\* a wrapper that keeps the first error it met
NextLastErr_First(last, err) == IF last = NoErr THEN err ELSE last

\* "lastErr = err"
NextLastErr(last, err) == err

\* what a wrapper returns
Return(out, err, exhausted) == [out |-> out, err |-> err, exhausted |-> exhausted]

\* a wrapper is called with an operation that fails any number of times with
\* transient errors and then succeeds or fails with another error, while
\* another goroutine calls listObjectsV2WithRetry on the same Client with the
\* same context
RetryInit ==
    /\ pc = "retry_call"
    /\ rop \in {"head", "put", "delete"}
    /\ opFails \in 0..(maxRetries + 2)
    /\ opThen \in {NoErr} \cup PermanentErrors
    /\ ctxDone = FALSE
    /\ attempt = 0 /\ lastErr = NoErr /\ invocations = 0 /\ lastOutcome = NoErr
    /\ waits = 0 /\ ret = Return(FALSE, NoErr, FALSE)
    /\ peer = [st |-> "call", attempt |-> 0]
    /\ fs = <<>> /\ store = <<>> /\ store0 = <<>> /\ prefix = <<>> /\ excludes = <<>>
    /\ deleteEnabled = FALSE /\ dryRun = FALSE /\ report = NoReport
    /\ localFiles = <<>> /\ s3Objects = <<>> /\ phase1Result = EmptyPhase1
    /\ checksums = <<>> /\ items = <<>> /\ calls = {} /\ planCalls = <<>> /\ results = <<>>
    /\ exitCode = "none" /\ concurrency = 0 /\ gpc = <<>> /\ failing = {}
    /\ planErr = "nil" /\ run = 0
    /\ UnitsIdle

\* what the loop does with the error of an invocation: return it as it is (a
\* *types.NotFound in headObjectWithRetry, an error that is not retryable), or
\* keep it in lastErr and, unless this was the last attempt, begin the wait
AfterError(err) ==
    IF (rop = "head" /\ err.notFound) \/ ~isRetryableError(err)
    THEN /\ ret' = Return(FALSE, err, FALSE)
         /\ pc' = "retry_done"
         /\ UNCHANGED <<attempt, lastErr, waits>>
    ELSE /\ lastErr' = NextLastErr(lastErr, err)
         /\ IF attempt < maxRetries
            THEN /\ pc' = "retry_wait"
                 /\ waits' = waits + 1
                 /\ UNCHANGED attempt
            ELSE /\ pc' = "retry_call"
                 /\ attempt' = attempt + 1
                 /\ UNCHANGED waits
         /\ UNCHANGED ret

\* one round of the loop: the operation is invoked; it gives a transient error
\* while it has failed fewer than opFails times, and opThen after that
RetryInvoke ==
    /\ pc = "retry_call"
    /\ MoreAttempts(attempt)
    /\ invocations' = invocations + 1
    /\ \E err \in IF invocations < opFails THEN TransientErrors ELSE {opThen} :
         /\ lastOutcome' = err
         /\ IF err = NoErr
            THEN /\ ret' = Return(TRUE, NoErr, FALSE)
                 /\ pc' = "retry_done"
                 /\ UNCHANGED <<attempt, lastErr, waits>>
            ELSE AfterError(err)
    /\ UNCHANGED <<rop, opFails, opThen, ctxDone, peer>>
    /\ UNCHANGED <<fs, store, store0, prefix, excludes, deleteEnabled, dryRun, report, localFiles,
                   s3Objects, phase1Result, checksums, items, calls, planCalls, results, exitCode,
                   planErr, run>>
    /\ UNCHANGED execVars
    /\ UNCHANGED unitVars

\* "case <-time.After(delay)": the timer fires before the context is
\* cancelled, or it has fired already, together with the context's channel,
\* when the select looks at its cases and picks one of the two; the loop goes
\* on
RetryWaitElapsed ==
    /\ pc = "retry_wait"
    /\ pc' = "retry_call"
    /\ attempt' = attempt + 1
    /\ UNCHANGED <<rop, opFails, opThen, ctxDone, lastErr, invocations, lastOutcome, waits,
                   ret, peer>>
    /\ UNCHANGED <<fs, store, store0, prefix, excludes, deleteEnabled, dryRun, report, localFiles,
                   s3Objects, phase1Result, checksums, items, calls, planCalls, results, exitCode,
                   planErr, run>>
    /\ UNCHANGED execVars
    /\ UNCHANGED unitVars

\* "case <-ctx.Done()": the wrapper returns ctx.Err().  The context was
\* cancelled before the select, or its cancellation woke the select
RetryWaitCancelled ==
    /\ (pc = "retry_wait" /\ ctxDone) \/ pc = "retry_woken"
    /\ pc' = "retry_done"
    /\ ret' = Return(FALSE, CtxErr, FALSE)
    /\ UNCHANGED <<rop, opFails, opThen, ctxDone, attempt, lastErr, invocations,
                   lastOutcome, waits, peer>>
    /\ UNCHANGED <<fs, store, store0, prefix, excludes, deleteEnabled, dryRun, report, localFiles,
                   s3Objects, phase1Result, checksums, items, calls, planCalls, results, exitCode,
                   planErr, run>>
    /\ UNCHANGED execVars
    /\ UNCHANGED unitVars

\* the loop has ended: the wrapper returns the "max retries exceeded" error
RetryExhausted ==
    /\ pc = "retry_call"
    /\ ~MoreAttempts(attempt)
    /\ pc' = "retry_done"
    /\ ret' = Return(FALSE, lastErr, TRUE)  \* "max retries exceeded: %w", lastErr
    /\ UNCHANGED <<rop, opFails, opThen, ctxDone, attempt, lastErr, invocations,
                   lastOutcome, waits, peer>>
    /\ UNCHANGED <<fs, store, store0, prefix, excludes, deleteEnabled, dryRun, report, localFiles,
                   s3Objects, phase1Result, checksums, items, calls, planCalls, results, exitCode,
                   planErr, run>>
    /\ UNCHANGED execVars
    /\ UNCHANGED unitVars

\* the caller cancels the context while the wrapper runs.  A wrapper blocked
\* in the select of its wait is woken by the close of ctx.Done(): the select
\* takes that case, whatever the timer does later
CancelContext ==
    /\ pc \in {"retry_call", "retry_wait"}
    /\ ~ctxDone
    /\ ctxDone' = TRUE
    /\ pc' = IF pc = "retry_wait" THEN "retry_woken" ELSE pc
    /\ UNCHANGED <<rop, opFails, opThen, attempt, lastErr, invocations, lastOutcome,
                   waits, ret, peer>>
    /\ UNCHANGED <<fs, store, store0, prefix, excludes, deleteEnabled, dryRun, report, localFiles,
                   s3Objects, phase1Result, checksums, items, calls, planCalls, results, exitCode,
                   planErr, run>>
    /\ UNCHANGED execVars
    /\ UNCHANGED unitVars

PeerStep_SharedAttempt ==
    /\ pc \in {"retry_call", "retry_wait", "retry_woken"}
    /\ peer.st = "call" /\ MoreAttempts(peer.attempt)
    /\ peer' = [peer EXCEPT !.attempt = @ + 1]
    /\ attempt' = attempt + 1
    /\ UNCHANGED <<pc, rop, opFails, opThen, ctxDone, lastErr, invocations, lastOutcome,
                   waits, ret>>
    /\ UNCHANGED syncVars
    /\ UNCHANGED execVars
    /\ UNCHANGED unitVars

\* a step of the concurrent call of listObjectsV2WithRetry, whose attempt and
\* lastErr are its own locals: NextPage succeeds or fails for good and the
\* call returns; it fails with a transient error and the call waits, or, at
\* the last attempt, goes to the end of its loop; the loop has ended and the
\* call returns "max retries exceeded"; its wait ends by the timer; or its
\* wait ends by the cancelled context and the call returns
PeerStep ==
    /\ pc \in {"retry_call", "retry_wait", "retry_woken"}
    /\ \/ /\ peer.st = "call" /\ MoreAttempts(peer.attempt)
          /\ \/ peer' = [peer EXCEPT !.st = "done"]
             \/ peer' = IF peer.attempt < maxRetries
                        THEN [peer EXCEPT !.st = "wait"]
                        ELSE [peer EXCEPT !.attempt = @ + 1]
       \/ /\ peer.st = "call" /\ ~MoreAttempts(peer.attempt)
          /\ peer' = [peer EXCEPT !.st = "done"]
       \/ /\ peer.st = "wait"
          /\ peer' = [peer EXCEPT !.st = "call", !.attempt = @ + 1]
       \/ /\ peer.st = "wait" /\ ctxDone
          /\ peer' = [peer EXCEPT !.st = "done"]
    /\ UNCHANGED <<pc, rop, opFails, opThen, ctxDone, attempt, lastErr, invocations,
                   lastOutcome, waits, ret>>
    /\ UNCHANGED syncVars
    /\ UNCHANGED execVars
    /\ UNCHANGED unitVars

SpecRetry ==
    RetryInit /\ [][RetryInvoke \/ RetryWaitElapsed \/ RetryWaitCancelled \/ RetryExhausted
                       \/ CancelContext \/ PeerStep]_vars

(***************************************************************************)
(* The numeric helpers of the two S3 clients: calculateDelay, the backoff  *)
(* of the retry wrappers, and calculatePartSize, the part size of a        *)
(* multipart upload.  A duration is a whole number of milliseconds (the    *)
(* code's time.Duration counts nanoseconds, and its conversion from        *)
(* float64 truncates).  A byte count is [mib, rem]: mib whole MiB plus a   *)
(* remainder below one MiB, of which only "zero or not" matters (rem = 1   *)
(* stands for every nonzero remainder).                                    *)
(***************************************************************************)
\* defaultBaseDelay = 100 * time.Millisecond, defaultMaxDelay = 30 * time.Second
defaultBaseDelay == 100
defaultMaxDelay == 30000

\* the attempt numbers calculateDelay is applied to: 0..MaxAttempt
MaxAttempt == 10

\* rand.Float64() is one of 0/JitterSteps, ..., (JitterSteps-1)/JitterSteps
JitterSteps == 7

calculateDelay_NoCap(n, j) ==
    (defaultBaseDelay * 2^n * (3 * JitterSteps + 2 * j)) \div (4 * JitterSteps)

\* calculateDelay(attempt) when rand.Float64() returns j / JitterSteps.  The
\* sum of delay and jitter is kept as a numerator over 4 * JitterSteps:
\*   delay * 0.25 * (2 * j/JitterSteps - 1) = delay * (2*j - JitterSteps) / (4 * JitterSteps)
calculateDelay(n, j) ==
    LET delay  == defaultBaseDelay * 2^n
        jitter == delay * (2 * j - JitterSteps)
        sum    == delay * 4 * JitterSteps + jitter
    IN  IF sum > defaultMaxDelay * 4 * JitterSteps
        THEN defaultMaxDelay
        ELSE sum \div (4 * JitterSteps)

\* the constants of pkg/s3client, in MiB
MultipartThreshold == 8
DefaultPartSize == 16
MinPartSize == 5
MaxPartSize == 5120
MaxParts == 10000

\* the largest file calculatePartSize is applied to, in MiB (5 TiB, the
\* largest object S3 stores)
MaxFileMiB == 5242880

calculatePartSize_RoundDown(fileSize) ==
    LET partSize == fileSize.mib \div MaxParts
    IN  [mib |-> IF partSize < DefaultPartSize THEN DefaultPartSize
                 ELSE IF partSize > MaxPartSize THEN MaxPartSize ELSE partSize,
         rem |-> 0]

\* calculatePartSize.  (fileSize / MaxParts) / (1024 * 1024), two integer
\* divisions of a byte count, is the number of whole MiB of fileSize divided
\* by MaxParts; "(... + 1) * 1024 * 1024" is a whole number of MiB.
calculatePartSize(fileSize) ==
    LET minPartSizeMiB == fileSize.mib \div MaxParts
        partSize  == minPartSizeMiB + 1
        dflt      == IF partSize < DefaultPartSize THEN DefaultPartSize ELSE partSize
        atLeast   == IF dflt < MinPartSize THEN MinPartSize ELSE dflt
    IN  [mib |-> IF atLeast > MaxPartSize THEN MaxPartSize ELSE atLeast, rem |-> 0]

AWSClientPutObject_AlwaysSimple(key, size) ==
    <<[api |-> "PutObject", key |-> key, partSize |-> 0]>>

\* AWSClient.PutObject: the requests it hands to the AWS SDK.  At or above
\* MultipartThreshold it is putObjectMultipart, one Upload of the SDK's
\* upload manager with the part size of calculatePartSize; below, it is
\* putObjectSimple, one PutObject of the SDK's client.  (The Body is the
\* *os.File of uploadFile, an io.ReadSeeker.)
AWSClientPutObject(key, size) ==
    IF size.mib >= MultipartThreshold
    THEN <<[api |-> "Upload", key |-> key, partSize |-> calculatePartSize(size).mib]>>
    ELSE <<[api |-> "PutObject", key |-> key, partSize |-> 0]>>

\* no sync runs
SyncIdle ==
    /\ fs = <<>> /\ store = <<>> /\ store0 = <<>> /\ prefix = <<>> /\ excludes = <<>>
    /\ deleteEnabled = FALSE /\ dryRun = FALSE /\ report = NoReport
    /\ localFiles = <<>> /\ s3Objects = <<>> /\ phase1Result = EmptyPhase1
    /\ checksums = <<>> /\ items = <<>> /\ calls = {} /\ planCalls = <<>> /\ results = <<>>
    /\ exitCode = "none" /\ concurrency = 0 /\ gpc = <<>> /\ failing = {}
    /\ planErr = "nil" /\ run = 0

\* one of the two helpers, or executeItem with one item, is about to be
\* called.  Sizes are the sizes next to each multiple of MaxParts MiB, where
\* the part size changes, and the sizes around MultipartThreshold;
\* calculatePartSize gets the sizes PutObject uploads in parts
\* (req.Size >= MultipartThreshold)
NumericInit ==
    /\ pc = "numeric"
    /\ LET Sizes ==
             {sz \in [mib : {q * MaxParts + d : q \in 0..(MaxFileMiB \div MaxParts),
                                                 d \in {0, 1, MaxParts \div 2, MaxParts - 1}}
                             \cup (0..(MultipartThreshold + 1)),
                      rem : {0, 1}] :
                 sz.mib < MaxFileMiB \/ (sz.mib = MaxFileMiB /\ sz.rem = 0)}
       IN  num \in {[NoCall EXCEPT !.fn = "calculateDelay", !.attempt = n] :
                       n \in 0..MaxAttempt}
                   \cup {[NoCall EXCEPT !.fn = "calculatePartSize", !.mib = sz.mib,
                                        !.rem = sz.rem] :
                            sz \in {f \in Sizes : f.mib >= MultipartThreshold}}
                   \cup {[NoCall EXCEPT !.fn = "uploadFile", !.key = key,
                                        !.mib = sz.mib, !.rem = sz.rem] :
                            sz \in Sizes, key \in {<<"a">>, <<"d", "/", "b">>}}
                   \cup {[NoCall EXCEPT !.fn = "deleteObject", !.key = key] :
                            key \in {<<"a">>, <<"d", "/", "b">>}}
    /\ SyncIdle
    /\ RetryIdle
    /\ ScanIdle
    /\ FnIdle
    /\ mp = NoUpload /\ pool = NoPool

\* calculateDelay returns, for any draw of the jitter
CalcDelay ==
    /\ pc = "numeric"
    /\ num.fn = "calculateDelay"
    /\ \E j \in 0..(JitterSteps - 1) :
         num' = [num EXCEPT !.out = calculateDelay(num.attempt, j)]
    /\ pc' = "numeric_done"
    /\ UNCHANGED syncVars
    /\ UNCHANGED execVars
    /\ UNCHANGED retryVars
    /\ UNCHANGED scanVars
    /\ UNCHANGED <<patternCache, mg, mp, pool>>

\* calculatePartSize returns
CalcPartSize ==
    /\ pc = "numeric"
    /\ num.fn = "calculatePartSize"
    /\ \E partSize \in {calculatePartSize([mib |-> num.mib, rem |-> num.rem])} :
         num' = [num EXCEPT !.out = partSize.mib, !.outRem = partSize.rem]
    /\ pc' = "numeric_done"
    /\ UNCHANGED syncVars
    /\ UNCHANGED execVars
    /\ UNCHANGED retryVars
    /\ UNCHANGED scanVars
    /\ UNCHANGED <<patternCache, mg, mp, pool>>

\* Executor.executeItem with one item: uploadFile opens the file and, when
\* that succeeds, calls PutObject of the client; deleteObject calls
\* DeleteObject of the client, which is one DeleteObject of the SDK's client.
\* Either returns the error of its call, wrapped.
ExecuteOne ==
    /\ pc = "numeric"
    /\ num.fn \in {"uploadFile", "deleteObject"}
    /\ \E opened, ok \in BOOLEAN :
         num' = IF num.fn = "deleteObject"
                THEN [num EXCEPT
                        !.sdk = <<[api |-> "DeleteObject", key |-> num.key, partSize |-> 0]>>,
                        !.err = IF ok THEN "nil" ELSE "failed to delete"]
                ELSE IF ~opened
                THEN [num EXCEPT !.err = "failed to open file"]
                ELSE [num EXCEPT
                        !.sdk = AWSClientPutObject(num.key, [mib |-> num.mib, rem |-> num.rem]),
                        !.err = IF ok THEN "nil" ELSE "failed to upload"]
    /\ pc' = "numeric_done"
    /\ UNCHANGED syncVars
    /\ UNCHANGED execVars
    /\ UNCHANGED retryVars
    /\ UNCHANGED scanVars
    /\ UNCHANGED <<patternCache, mg, mp, pool>>

SpecNumeric == NumericInit /\ [][CalcDelay \/ CalcPartSize \/ ExecuteOne]_vars

(***************************************************************************)
(* parallelGatherLocalFiles: workerCount workers take directories from     *)
(* dirQueue, read them, queue their subdirectories and append their files  *)
(* to the shared slice; a goroutine closes the queue when dirWg reaches    *)
(* zero.  The tree is fs: its directories are the proper prefixes of its   *)
(* paths, and <<>> is basePath.                                            *)
(***************************************************************************)
\* the number of workers of a scan, 8 by default in the code: 1..MaxWorkers
MaxWorkers == 2

\* the capacity of dirQueue, 1000 in the code, scaled down so that a full
\* queue happens on the model's trees
QueueCap == 1

\* the directories of a tree
Dirs(tree) ==
    {<<>>} \cup UNION {{JoinSlash(SubSeq(SplitSlash(p), 1, k)) :
                            k \in 1..(Len(SplitSlash(p)) - 1)} : p \in DOMAIN tree}

\* os.ReadDir(dir): the entries of the directory, sorted by file name
ReadDir(tree, dir) ==
    LET \* the segments of path p below dir; <<>> when p is not below dir
        Below(d, p) ==
            IF d = <<>> THEN SplitSlash(p)
            ELSE IF HasPrefix(p, d \o <<"/">>) THEN SplitSlash(TrimPrefix(p, d \o <<"/">>))
            ELSE <<>>
        under == {p \in DOMAIN tree : Below(dir, p) # <<>>}
        names == {Below(dir, p)[1] : p \in under}
        entry(n) == [Name |-> n,
                     IsDir |-> \E p \in under : Len(Below(dir, p)) > 1 /\ Below(dir, p)[1] = n]
        less(e1, e2) == StrLess(e1.Name, e2.Name)
    IN  IF names = {} THEN <<>>
        ELSE SortSlice(MapSeq(CHOOSE q \in Perms(names) : TRUE, entry), less)

RecordErr_Any(cur, err) == IF cur # NoDirErr THEN cur ELSE err

\* "if !os.IsPermission(err) { errOnce.Do(func() { resultErr = err }) }"
RecordErr(cur, err) ==
    IF err.kind = "perm" THEN cur
    ELSE IF cur # NoDirErr THEN cur
    ELSE err

\* a worker waiting in "for task := range dirQueue"
Receiving == [st |-> "recv", dir |-> <<>>, todo |-> <<>>]

SortItems_Unsorted(list) == list

\* sort.Slice(items, by Path)
SortItems(list) == SortSlice(list, RefPathLess)

\* the scan has started its workers and queued basePath
ScanInit ==
    /\ pc = "scan"
    /\ \E D \in SUBSET {<<"d", ".", "t">>, <<"d", "/", "b">>, <<"d", "/", "e", "/", "c">>,
                         <<"e", "/", "a">>} :
         \E c \in Contents : fs = [p \in D |-> c]
    /\ excludes \in ExcludeLists
    /\ workerCount \in 1..MaxWorkers
    /\ dirErr \in [Dirs(fs) -> {"nil", "perm", "io"}]
    /\ dirQueue = <<<<>>>>
    /\ senders = {}
    /\ dirWg = 1
    /\ closed = FALSE
    /\ wk = [w \in 1..workerCount |-> Receiving]
    /\ scanned = <<>>
    /\ reads = [d \in Dirs(fs) |-> 0]
    /\ resultErr = NoDirErr
    /\ scanRet = [items |-> <<>>, err |-> NoDirErr]
    /\ store = <<>> /\ store0 = <<>> /\ prefix = <<>>
    /\ deleteEnabled = FALSE /\ dryRun = FALSE /\ report = NoReport
    /\ localFiles = <<>> /\ s3Objects = <<>> /\ phase1Result = EmptyPhase1
    /\ checksums = <<>> /\ items = <<>> /\ calls = {} /\ planCalls = <<>> /\ results = <<>>
    /\ exitCode = "none" /\ concurrency = 0 /\ gpc = <<>> /\ failing = {}
    /\ planErr = "nil" /\ run = 0
    /\ RetryIdle
    /\ num = NoCall
    /\ FnIdle
    /\ mp = NoUpload /\ pool = NoPool

\* what a step of the scan leaves alone
ScanFrame ==
    /\ UNCHANGED <<workerCount, dirErr, num, patternCache, mg, mp, pool>>
    /\ UNCHANGED syncVars
    /\ UNCHANGED execVars
    /\ UNCHANGED retryVars

\* a worker receives a directory from the queue
WorkerReceive ==
    \E w \in DOMAIN wk :
        /\ pc = "scan"
        /\ wk[w].st = "recv"
        /\ dirQueue # <<>>
        /\ dirQueue' = Tail(dirQueue)
        /\ wk' = [wk EXCEPT ![w] = [st |-> "read", dir |-> Head(dirQueue), todo |-> <<>>]]
        /\ UNCHANGED <<pc, senders, dirWg, closed, scanned, reads, resultErr, scanRet>>
        /\ ScanFrame

WorkerRead_NoDone ==
    \E w \in DOMAIN wk :
        /\ pc = "scan"
        /\ wk[w].st = "read"
        /\ reads' = [reads EXCEPT ![wk[w].dir] = @ + 1]
        /\ \E task \in {wk[w].dir} :
             IF dirErr[task] # "nil"
             THEN /\ resultErr' = RecordErr(resultErr, [kind |-> dirErr[task], dir |-> task])
                  /\ wk' = [wk EXCEPT ![w] = Receiving]
             ELSE /\ wk' = [wk EXCEPT ![w] = [st |-> "entries", dir |-> task,
                                              todo |-> ReadDir(fs, task)]]
                  /\ UNCHANGED resultErr
        /\ UNCHANGED <<pc, dirQueue, senders, dirWg, closed, scanned, scanRet>>
        /\ ScanFrame

\* os.ReadDir returns: an error is recorded (unless it is a permission error)
\* and the directory is done; otherwise the worker goes through the entries
WorkerRead ==
    \E w \in DOMAIN wk :
        /\ pc = "scan"
        /\ wk[w].st = "read"
        /\ reads' = [reads EXCEPT ![wk[w].dir] = @ + 1]
        /\ \E task \in {wk[w].dir} :
             IF dirErr[task] # "nil"
             THEN /\ resultErr' = RecordErr(resultErr, [kind |-> dirErr[task], dir |-> task])
                  /\ dirWg' = dirWg - 1
                  /\ wk' = [wk EXCEPT ![w] = Receiving]
             ELSE /\ wk' = [wk EXCEPT ![w] = [st |-> "entries", dir |-> task,
                                              todo |-> ReadDir(fs, task)]]
                  /\ UNCHANGED <<resultErr, dirWg>>
        /\ UNCHANGED <<pc, dirQueue, senders, closed, scanned, scanRet>>
        /\ ScanFrame

\* a worker handles the next entry: a directory is counted in dirWg and sent
\* to the queue (by a new goroutine when the queue is full); a file that
\* IsExcluded accepts is appended to items under the mutex
WorkerEntry ==
    \E w \in DOMAIN wk :
        /\ pc = "scan"
        /\ wk[w].st = "entries"
        /\ wk[w].todo # <<>>
        /\ wk' = [wk EXCEPT ![w].todo = Tail(@)]
        /\ \E entry \in {Head(wk[w].todo)} : \E fullPath \in {Join(wk[w].dir, entry.Name)} :
             IF entry.IsDir
             THEN /\ dirWg' = dirWg + 1
                  /\ IF Len(dirQueue) < QueueCap
                     THEN dirQueue' = Append(dirQueue, fullPath) /\ UNCHANGED senders
                     ELSE senders' = senders \cup {fullPath} /\ UNCHANGED dirQueue
                  /\ UNCHANGED scanned
             ELSE /\ scanned' =
                       IF IsExcludedErr(fullPath, excludes) \/ IsExcluded(fullPath, excludes)
                       THEN scanned
                       ELSE Append(scanned, [Path |-> fullPath, Size |-> fs[fullPath].Size,
                                             Checksum |-> ""])
                  /\ UNCHANGED <<dirWg, dirQueue, senders>>
        /\ UNCHANGED <<pc, closed, reads, resultErr, scanRet>>
        /\ ScanFrame

\* a worker has handled every entry: "dirWg.Done()"
WorkerDirDone ==
    \E w \in DOMAIN wk :
        /\ pc = "scan"
        /\ wk[w].st = "entries"
        /\ wk[w].todo = <<>>
        /\ dirWg' = dirWg - 1
        /\ wk' = [wk EXCEPT ![w] = Receiving]
        /\ UNCHANGED <<pc, dirQueue, senders, closed, scanned, reads, resultErr, scanRet>>
        /\ ScanFrame

\* a goroutine blocked in "dirQueue <- dirTask{path: path}" sends
SenderSend ==
    /\ pc = "scan"
    /\ Len(dirQueue) < QueueCap
    /\ \E path \in senders :
         /\ dirQueue' = Append(dirQueue, path)
         /\ senders' = senders \ {path}
    /\ UNCHANGED <<pc, dirWg, closed, wk, scanned, reads, resultErr, scanRet>>
    /\ ScanFrame

CloseQueue_WhenQueueEmpty ==
    /\ pc = "scan"
    /\ dirQueue = <<>>
    /\ ~closed
    /\ closed' = TRUE
    /\ UNCHANGED <<pc, dirQueue, senders, dirWg, wk, scanned, reads, resultErr, scanRet>>
    /\ ScanFrame

\* "dirWg.Wait(); close(dirQueue)"
CloseQueue ==
    /\ pc = "scan"
    /\ dirWg = 0
    /\ ~closed
    /\ closed' = TRUE
    /\ UNCHANGED <<pc, dirQueue, senders, dirWg, wk, scanned, reads, resultErr, scanRet>>
    /\ ScanFrame

\* the range loop of a worker ends: the queue is closed and empty
WorkerExit ==
    \E w \in DOMAIN wk :
        /\ pc = "scan"
        /\ wk[w].st = "recv"
        /\ closed
        /\ dirQueue = <<>>
        /\ wk' = [wk EXCEPT ![w].st = "exit"]
        /\ UNCHANGED <<pc, dirQueue, senders, dirWg, closed, scanned, reads, resultErr, scanRet>>
        /\ ScanFrame

\* "workerWg.Wait()" returns; the scan returns the error, or the sorted items
ScanReturn ==
    /\ pc = "scan"
    /\ \A w \in DOMAIN wk : wk[w].st = "exit"
    /\ scanRet' = IF resultErr # NoDirErr
                  THEN [items |-> <<>>, err |-> resultErr]
                  ELSE [items |-> SortItems(scanned), err |-> NoDirErr]
    /\ pc' = "scan_done"
    /\ UNCHANGED <<dirQueue, senders, dirWg, closed, wk, scanned, reads, resultErr>>
    /\ ScanFrame

SpecScan ==
    ScanInit /\ [][WorkerReceive \/ WorkerRead \/ WorkerEntry \/ WorkerDirDone \/ WorkerExit
                      \/ SenderSend \/ CloseQueue \/ ScanReturn]_vars

\* the scan under Go's scheduler, which does not leave every goroutine that
\* can take a step (a worker, a goroutine blocked in a send, the goroutine
\* that closes the queue, the caller waiting in workerWg.Wait()) waiting
\* forever.  The scans are those of SpecScan without exclude patterns, on
\* the trees whose directories are basePath, "d" and "e": what the files hold
\* and whether they are excluded change no step of a goroutine.
ScanFairInit ==
    /\ ScanInit
    /\ excludes = <<>>
    /\ \A p \in DOMAIN fs : fs[p].Size = 1 /\ Len(p) <= 3

SpecScanFair ==
    /\ ScanFairInit
    /\ [][WorkerReceive \/ WorkerRead \/ WorkerEntry \/ WorkerDirDone \/ WorkerExit
               \/ SenderSend \/ CloseQueue \/ ScanReturn]_vars
    /\ WF_vars(WorkerReceive \/ WorkerRead \/ WorkerEntry \/ WorkerDirDone \/ WorkerExit
                   \/ SenderSend \/ CloseQueue \/ ScanReturn)

(***************************************************************************)
(* Package fnmatch: Translate turns a shell pattern into a regular         *)
(* expression, compile keeps the compiled expressions in patternCache,     *)
(* and Match and Filter apply them.  Patterns and names are Go strings:    *)
(* sequences of bytes, here the ASCII characters and "C3", "A9", the two   *)
(* bytes of the UTF-8 form of U+00E9.  A regular expression works on the   *)
(* runes of the text; it is the sequence of the tokens Translate writes    *)
(* between "(?s:^" and "$)", each [t, r, neg, set].                        *)
(***************************************************************************)
RECURSIVE Decode(_)
\* the runes of a string, as regexp reads them: UTF-8, an invalid byte being
\* U+FFFD
Decode(b) ==
    IF b = <<>> THEN <<>>
    ELSE IF Head(b) = "C3" /\ Len(b) >= 2 /\ b[2] = "A9"
    THEN <<"U+E9">> \o Decode(SubSeq(b, 3, Len(b)))
    ELSE IF Head(b) \in {"C3", "A9"} THEN <<"U+FFFD">> \o Decode(Tail(b))
    ELSE <<Head(b)>> \o Decode(Tail(b))

\* string(c) for a byte c: the rune whose number is c
ByteRune(c) == IF c = "C3" THEN "U+C3" ELSE IF c = "A9" THEN "U+A9" ELSE c

Token(t, r, neg, set) == [t |-> t, r |-> r, neg |-> neg, set |-> set]

RECURSIVE TranslateFrom(_, _)
\* the loop of Translate from position i (counted from 1)
TranslateFrom(pattern, i) ==
    IF i > Len(pattern) THEN <<>>
    ELSE LET n == Len(pattern)
             c == pattern[i]
             \* the first position from k on where Stop holds, n + 1 if none
             First(k, Stop(_)) ==
                 CHOOSE j \in k..(n + 1) :
                     (j = n + 1 \/ Stop(j)) /\ \A m \in k..(j - 1) : ~Stop(m)
         IN  IF c = "*"
             THEN <<Token("star", "", FALSE, {})>>
                      \o TranslateFrom(pattern, First(i + 1, LAMBDA j : pattern[j] # "*"))
             ELSE IF c = "?"
             THEN <<Token("any", "", FALSE, {})>> \o TranslateFrom(pattern, i + 1)
             ELSE IF c = "["
             THEN LET j0 == IF i + 1 <= n /\ pattern[i + 1] = "!" THEN i + 2 ELSE i + 1
                      j1 == IF j0 <= n /\ pattern[j0] = "]" THEN j0 + 1 ELSE j0
                      j  == First(j1, LAMBDA k : pattern[k] = "]")
                      stuff == SubSeq(pattern, i + 1, j - 1)
                  IN  IF j > n
                      THEN <<Token("lit", "[", FALSE, {})>> \o TranslateFrom(pattern, i + 1)
                      ELSE (IF stuff = <<>> THEN <<Token("never", "", FALSE, {})>>
                            ELSE IF stuff = <<"!">> THEN <<Token("any", "", FALSE, {})>>
                            ELSE IF stuff[1] = "!"
                            THEN <<Token("class", "", TRUE, Range(Decode(Tail(stuff))))>>
                            ELSE <<Token("class", "", FALSE, Range(Decode(stuff)))>>)
                           \o TranslateFrom(pattern, j + 1)
             ELSE <<Token("lit", ByteRune(c), FALSE, {})>> \o TranslateFrom(pattern, i + 1)

\* Translate
Translate(pattern) == TranslateFrom(pattern, 1)

\* "translated := Translate(pattern); re, err := regexp.Compile(translated)"
\* by goroutine g: each compilation makes a new Regexp
Compile(pattern, g) == [prog |-> Translate(pattern), by |-> g]

\* the err of regexp.Compile: it rejects "(?!)"
CompileErr(re) == \E i \in DOMAIN re.prog : re.prog[i].t = "never"

RECURSIVE MatchRunes(_, _)
\* the tokens match the whole text
MatchRunes(prog, text) ==
    IF prog = <<>> THEN text = <<>>
    ELSE IF Head(prog).t = "star"
    THEN \E k \in 0..Len(text) : MatchRunes(Tail(prog), SubSeq(text, k + 1, Len(text)))
    ELSE /\ text # <<>>
         /\ CASE Head(prog).t = "any"   -> TRUE
              [] Head(prog).t = "lit"   -> Head(text) = Head(prog).r
              [] Head(prog).t = "class" -> (Head(text) \in Head(prog).set) # Head(prog).neg
              [] OTHER                  -> FALSE
         /\ MatchRunes(Tail(prog), Tail(text))

CacheLoad_Any(cache, pattern) ==
    IF DOMAIN cache # {}
    THEN [ok |-> TRUE, re |-> cache[CHOOSE q \in DOMAIN cache : TRUE]]
    ELSE [ok |-> FALSE, re |-> Compile(<<>>, 0)]

\* patternCache.Load(pattern)
CacheLoad(cache, pattern) ==
    IF pattern \in DOMAIN cache
    THEN [ok |-> TRUE, re |-> cache[pattern]]
    ELSE [ok |-> FALSE, re |-> Compile(<<>>, 0)]

\* what Match (names is the one name) and Filter return with the expression re
Matched(re, names) ==
    [done |-> TRUE, err |-> FALSE, list |-> SelectSeq(names, LAMBDA nm : MatchRunes(re.prog, Decode(nm)))]

\* the patterns and names of the calls: up to MaxPieces (MaxUnits) pieces
MaxPieces == 2
MaxUnits == 2

\* the goroutines that call the package at the same time, and the calls they
\* make between them
MaxGoroutines == 2
MaxCalls == 3

RECURSIVE Concats(_, _)
\* the strings made of at most n of the pieces
Concats(pieces, n) ==
    IF n = 0 THEN {<<>>}
    ELSE Concats(pieces, n - 1) \cup {u \o v : u \in Concats(pieces, n - 1), v \in pieces}

\* the arguments of a call: any pattern and name for a goroutine on its own;
\* a few patterns and names, and a Filter of a list, for goroutines side by
\* side (names is the one name of Match, or the list of Filter)
FnCalls(n) ==
    IF n = 1
    THEN [op : {"Match"},
          pattern : Concats({<<"*">>, <<"?">>, <<"a">>, <<"/">>, <<"[">>, <<"]">>, <<"!">>,
                             <<"[", "a", "]">>, <<"[", "!", "a", "b", "]">>,
                             <<"C3", "A9">>}, MaxPieces),
          names : {<<nm>> : nm \in Concats({<<"a">>, <<"c">>, <<"/">>, <<"[">>,
                                             <<"C3", "A9">>}, MaxUnits)}]
    ELSE [op : {"Match"}, pattern : {<<"*", "a">>, <<"a", "*">>}, names : {<<<<"a", "/">>>>}]
         \cup [op : {"Filter"}, pattern : {<<"*", "a">>, <<"a", "*">>},
               names : {<<<<"a">>, <<"/", "a">>, <<"a", "/">>>>}]

RECURSIVE CallsLeft(_)
\* the calls the goroutines have left between them
CallsLeft(left) == IF left = <<>> THEN 0 ELSE Head(left) + CallsLeft(Tail(left))

\* a goroutine outside a call, with left calls to make
Outside(left) ==
    [st |-> "idle", left |-> left, op |-> "", pattern |-> <<>>, names |-> <<>>,
     ok |-> FALSE, re |-> Compile(<<>>, 0), out |-> [done |-> FALSE, err |-> FALSE, list |-> <<>>]]

FnInit ==
    /\ pc = "fnmatch"
    /\ patternCache = <<>>
    /\ \E n \in 1..MaxGoroutines :
       \E left \in [1..n -> 0..MaxCalls] :
         /\ CallsLeft(left) = (IF n = 1 THEN 1 ELSE MaxCalls)
         /\ mg = [g \in 1..n |-> Outside(left[g])]
    /\ SyncIdle
    /\ RetryIdle
    /\ num = NoCall
    /\ ScanIdle
    /\ mp = NoUpload /\ pool = NoPool

\* what a step of the package leaves alone
FnFrame ==
    /\ UNCHANGED <<pc, num, mp, pool>>
    /\ UNCHANGED scanVars
    /\ UNCHANGED syncVars
    /\ UNCHANGED execVars
    /\ UNCHANGED retryVars

\* a goroutine calls Match or Filter
FnCall ==
    /\ pc = "fnmatch"
    /\ \E g \in {h \in DOMAIN mg : mg[h].st = "idle" /\ mg[h].left > 0} :
       \E call \in FnCalls(Len(mg)) :
         /\ mg' = [mg EXCEPT ![g] = [Outside(mg[g].left - 1) EXCEPT
                       !.st = "load", !.op = call.op, !.pattern = call.pattern,
                       !.names = call.names]]
    /\ UNCHANGED patternCache
    /\ FnFrame

\* compile looks the pattern up: on a hit the call returns with the cached
\* expression; on a miss the goroutine compiles the pattern (an error ends
\* the call) and goes on to store the expression
FnLoad ==
    /\ pc = "fnmatch"
    /\ \E g \in DOMAIN mg :
         /\ mg[g].st = "load"
         /\ \E hit \in {CacheLoad(patternCache, mg[g].pattern)} :
            \E re \in {IF hit.ok THEN hit.re ELSE Compile(mg[g].pattern, g)} :
              mg' = [mg EXCEPT ![g] =
                       IF hit.ok
                       THEN [@ EXCEPT !.st = "idle", !.ok = TRUE, !.re = re,
                                      !.out = Matched(re, mg[g].names)]
                       ELSE IF CompileErr(re)
                       THEN [@ EXCEPT !.st = "idle",
                                      !.out = [done |-> TRUE, err |-> TRUE, list |-> <<>>]]
                       ELSE [@ EXCEPT !.st = "store", !.re = re]]
    /\ UNCHANGED patternCache
    /\ FnFrame

\* "patternCache.Store(pattern, re)", and the call returns
FnStore ==
    /\ pc = "fnmatch"
    /\ \E g \in DOMAIN mg :
         /\ mg[g].st = "store"
         /\ patternCache' = [q \in DOMAIN patternCache \cup {mg[g].pattern} |->
                                IF q = mg[g].pattern THEN mg[g].re ELSE patternCache[q]]
         /\ mg' = [mg EXCEPT ![g].st = "idle", ![g].out = Matched(mg[g].re, mg[g].names)]
    /\ FnFrame

SpecFnmatch == FnInit /\ [][FnCall \/ FnLoad \/ FnStore]_vars

(***************************************************************************)
(* Pool.multipartUpload of package worker: one file uploaded in parts.     *)
(***************************************************************************)
\* the constants of package worker, in bytes
multipartThreshold == 67108864
partSize == 8388608

\* the files have up to MaxFullParts full parts
MaxFullParts == 9

\* a call of the client: UploadPart has a part number, an offset and a size,
\* CompleteMultipartUpload the list of parts as it is sent
MpCall(op, number, from, size, parts) ==
    [op |-> op, partNumber |-> number, from |-> from, size |-> size, parts |-> parts]

\* types.CompletedPart{ETag: partResp.ETag, PartNumber: &partNumber}: the ETag
\* is that of the part uploaded under the number, PartNumber is a pointer
CompletedPart(number) == [ETag |-> number, PartNumber |-> "&partNumber"]

\* the parts as CompleteMultipartUpload sends them: each pointer is read when
\* the call is made, and every one points to the variable partNumber
SentParts(m) ==
    [i \in DOMAIN m.completedParts |->
        [ETag |-> m.completedParts[i].ETag, PartNumber |-> m.partNumber]]

MpInit ==
    /\ pc = "multipart"
    /\ \E sz \in {f * partSize + r : f \in 0..MaxFullParts, r \in {0, 1, partSize - 1}} :
         /\ sz > multipartThreshold
         /\ \E old \in {"none", "old"} :
              mp = [NoUpload EXCEPT !.st = "create", !.size = sz, !.object = old]
    /\ pool = NoPool
    /\ SyncIdle
    /\ RetryIdle
    /\ num = NoCall
    /\ ScanIdle
    /\ FnIdle

\* what multipartUpload leaves alone
MpFrame ==
    /\ UNCHANGED <<pc, num, patternCache, mg, pool>>
    /\ UNCHANGED scanVars
    /\ UNCHANGED syncVars
    /\ UNCHANGED execVars
    /\ UNCHANGED retryVars

\* CreateMultipartUpload: an error ends the upload
MpCreate ==
    /\ mp.st = "create"
    /\ \E ok \in BOOLEAN :
         mp' = [mp EXCEPT !.calls = Append(@, MpCall("CreateMultipartUpload", 0, 0, 0, <<>>)),
                          !.partNumber = 1,
                          !.st = IF ok THEN "loop" ELSE "returned",
                          !.err = IF ok THEN "nil" ELSE "create multipart upload"]
    /\ MpFrame

\* one round of the loop: io.ReadFull of up to partSize bytes (it may fail),
\* nothing read ends the loop; else UploadPart, whose error ends the loop, and
\* after it the completed part and partNumber++; a short read ends the loop
MpPart ==
    /\ mp.st = "loop"
    /\ \E readOk, ok \in BOOLEAN :
       \E n \in {IF mp.size - mp.pos < partSize THEN mp.size - mp.pos ELSE partSize} :
         mp' = IF ~readOk
               THEN [mp EXCEPT !.uploadErr = "read part", !.st = "done"]
               ELSE IF n = 0 THEN [mp EXCEPT !.st = "done"]
               ELSE IF ~ok
               THEN [mp EXCEPT !.calls = Append(@, MpCall("UploadPart", mp.partNumber,
                                                            mp.pos, n, <<>>)),
                               !.uploadErr = "upload part", !.st = "done"]
               ELSE [mp EXCEPT !.calls = Append(@, MpCall("UploadPart", mp.partNumber,
                                                            mp.pos, n, <<>>)),
                               !.completedParts = Append(@, CompletedPart(mp.partNumber)),
                               !.partNumber = @ + 1,
                               !.pos = @ + n,
                               !.st = IF n < partSize THEN "done" ELSE "loop"]
    /\ MpFrame

\* a multipartUpload that completes the upload whatever the loop met
MpComplete_IgnoresUploadErr ==
    /\ mp.st = "done"
    /\ \E ok \in BOOLEAN :
         mp' = [mp EXCEPT !.calls = Append(@, MpCall("CompleteMultipartUpload", 0, 0, 0,
                                                      SentParts(mp))),
                          !.st = "returned",
                          !.err = IF ok THEN "nil" ELSE "complete multipart upload",
                          !.object = IF ok THEN "new" ELSE @]
    /\ MpFrame

\* after the loop: return uploadErr, or call CompleteMultipartUpload with the
\* completed parts and return its error.  The bucket holds the new object
\* from a CompleteMultipartUpload that succeeded, and from nothing else: the
\* parts of an upload that was not completed are no object
MpComplete ==
    /\ mp.st = "done"
    /\ \E ok \in BOOLEAN :
         mp' = IF mp.uploadErr # "nil"
               THEN [mp EXCEPT !.st = "returned", !.err = mp.uploadErr]
               ELSE [mp EXCEPT !.calls = Append(@, MpCall("CompleteMultipartUpload", 0, 0, 0,
                                                            SentParts(mp))),
                               !.st = "returned",
                               !.err = IF ok THEN "nil" ELSE "complete multipart upload",
                               !.object = IF ok THEN "new" ELSE @]
    /\ MpFrame

SpecMultipart == MpInit /\ [][MpCreate \/ MpPart \/ MpComplete]_vars

(***************************************************************************)
(* Pool.Execute of internal/worker: the workers are started, the items are *)
(* sent to the jobs channel, which is then closed, Execute waits for the   *)
(* workers, closes the results channel and collects what it holds.  Both   *)
(* channels have room for len(items) values; a send to a full channel      *)
(* waits.                                                                  *)
(***************************************************************************)
\* the plans have up to MaxPoolItems items
MaxPoolItems == 3

\* Execute has started its workers (1..MaxConcurrency of them) and is about to
\* send the first item
PoolInit ==
    /\ pc = "pool"
    /\ \E n \in 0..MaxPoolItems, c \in 1..MaxConcurrency :
         pool = [NoPool EXCEPT !.st = "send", !.n = n, !.concurrency = c,
                               !.wk = [w \in 1..c |-> [st |-> "recv", item |-> 0]]]
    /\ SyncIdle
    /\ RetryIdle
    /\ num = NoCall /\ ScanIdle /\ FnIdle /\ mp = NoUpload

\* a step of Execute: "jobs <- item", "close(jobs)", or, when wg.Wait() has
\* returned, "close(results)" and the collection of the results
PoolExecute ==
    /\ pc = "pool"
    /\ \/ /\ pool.st = "send" /\ pool.sent < pool.n
          /\ Len(pool.jobs) < pool.n
          /\ pool' = [pool EXCEPT !.jobs = Append(@, pool.sent + 1), !.sent = @ + 1]
          /\ UNCHANGED pc
       \/ /\ pool.st = "send" /\ pool.sent = pool.n
          /\ pool' = [pool EXCEPT !.jobsClosed = TRUE, !.st = "wait"]
          /\ UNCHANGED pc
       \/ /\ pool.st = "wait"
          /\ \A w \in DOMAIN pool.wk : pool.wk[w].st = "exit"
          /\ pool' = [pool EXCEPT !.allResults = pool.results, !.st = "done"]
          /\ pc' = "pool_done"
    /\ UNCHANGED <<num, patternCache, mg, mp>>
    /\ UNCHANGED scanVars
    /\ UNCHANGED syncVars
    /\ UNCHANGED execVars
    /\ UNCHANGED retryVars

\* a step of a worker: it receives an item and, when the context is done,
\* sends a Result with ctx.Err() and returns; it uploads or deletes the item
\* it holds and sends the Result; or its range loop ends, the channel being
\* closed and empty
PoolWorker ==
    /\ pc = "pool"
    /\ \E w \in DOMAIN pool.wk :
         \/ /\ pool.wk[w].st = "recv" /\ pool.jobs # <<>>
            /\ IF pool.ctxDone
               THEN /\ Len(pool.results) < pool.n
                    /\ pool' = [pool EXCEPT
                                  !.jobs = Tail(@),
                                  !.results = Append(@, [Item |-> Head(pool.jobs),
                                                         Error |-> "context canceled"]),
                                  !.wk[w] = [st |-> "exit", item |-> 0]]
               ELSE pool' = [pool EXCEPT !.jobs = Tail(@),
                                         !.wk[w] = [st |-> "work", item |-> Head(pool.jobs)]]
         \/ /\ pool.wk[w].st = "work"
            /\ Len(pool.results) < pool.n
            /\ \E err \in {"nil", "failed"} :
                 pool' = [pool EXCEPT
                            !.results = Append(@, [Item |-> pool.wk[w].item, Error |-> err]),
                            !.wk[w] = [st |-> "recv", item |-> 0]]
         \/ /\ pool.wk[w].st = "recv" /\ pool.jobs = <<>> /\ pool.jobsClosed
            /\ pool' = [pool EXCEPT !.wk[w] = [st |-> "exit", item |-> 0]]
    /\ UNCHANGED <<pc, num, patternCache, mg, mp>>
    /\ UNCHANGED scanVars
    /\ UNCHANGED syncVars
    /\ UNCHANGED execVars
    /\ UNCHANGED retryVars

\* the caller's context is cancelled while Execute runs
PoolCancel ==
    /\ pc = "pool"
    /\ ~pool.ctxDone
    /\ pool' = [pool EXCEPT !.ctxDone = TRUE]
    /\ UNCHANGED <<pc, num, patternCache, mg, mp>>
    /\ UNCHANGED scanVars
    /\ UNCHANGED syncVars
    /\ UNCHANGED execVars
    /\ UNCHANGED retryVars

SpecPool == PoolInit /\ [][PoolExecute \/ PoolWorker \/ PoolCancel]_vars

(***************************************************************************)
(* Properties of the pure phases (checked under SpecPure).                 *)
(***************************************************************************)
\* the number of entries of a list of ItemRefs that carry the path
Occ(refs, path) == Cardinality({i \in DOMAIN refs : refs[i].Path = path})

PathsOf(list) == {list[i].Path : i \in DOMAIN list}

\* the item of a metadata list with the given path
MetaAt(list, path) == list[CHOOSE i \in DOMAIN list : list[i].Path = path]

Phase1Done == pc \in {"pure1", "pure3"}

Phase1Lists ==
    <<phase1Result.NewItems, phase1Result.DeletedItems, phase1Result.SizeMismatch,
      phase1Result.NeedChecksum, phase1Result.Identical>>

\* C2: once Phase1Compare has run, every local path occurs exactly once in
\* NewItems, SizeMismatch, NeedChecksum and Identical taken together and not in
\* DeletedItems; every remote-only path occurs exactly once in DeletedItems
\* when deleteEnabled and in no list otherwise; and no list holds a path that
\* is in neither input.
C2_PartitionComplete ==
    Phase1Done =>
        /\ \A p \in PathsOf(localFiles) :
             /\ Occ(phase1Result.NewItems, p) + Occ(phase1Result.SizeMismatch, p)
                  + Occ(phase1Result.NeedChecksum, p) + Occ(phase1Result.Identical, p) = 1
             /\ Occ(phase1Result.DeletedItems, p) = 0
        /\ \A p \in PathsOf(s3Objects) \ PathsOf(localFiles) :
             /\ Occ(phase1Result.DeletedItems, p) = (IF deleteEnabled THEN 1 ELSE 0)
             /\ Occ(phase1Result.NewItems, p) + Occ(phase1Result.SizeMismatch, p)
                  + Occ(phase1Result.NeedChecksum, p) + Occ(phase1Result.Identical, p) = 0
        /\ \A k \in 1..5 :
             PathsOf(Phase1Lists[k]) \subseteq PathsOf(localFiles) \cup PathsOf(s3Objects)

\* a comparison with a new file, a common file and a remote-only file, once
\* with delete enabled
C2_Witness ==
    /\ Phase1Done
    /\ deleteEnabled
    /\ Len(phase1Result.NewItems) = 1
    /\ Len(phase1Result.DeletedItems) = 1
    /\ Len(phase1Result.SizeMismatch) + Len(phase1Result.NeedChecksum)
         + Len(phase1Result.Identical) = 1

\* C3: a local item is in NewItems iff its path is absent remotely, in
\* SizeMismatch iff present with a different size, in Identical iff present
\* with the same size and both checksums non-empty and equal, in NeedChecksum
\* iff present with the same size and a checksum empty or the two different;
\* the ItemRef carries the local size, and in DeletedItems the remote size.
C3_Classification ==
    Phase1Done =>
        /\ \A p \in PathsOf(localFiles) :
             LET l == MetaAt(localFiles, p)
                 present == p \in PathsOf(s3Objects)
                 r == MetaAt(s3Objects, p)
             IN  /\ Occ(phase1Result.NewItems, p) = 1 <=> ~present
                 /\ Occ(phase1Result.SizeMismatch, p) = 1 <=>
                        (present /\ l.Size # r.Size)
                 /\ Occ(phase1Result.Identical, p) = 1 <=>
                        (present /\ l.Size = r.Size /\ l.Checksum # ""
                           /\ r.Checksum # "" /\ l.Checksum = r.Checksum)
                 /\ Occ(phase1Result.NeedChecksum, p) = 1 <=>
                        (present /\ l.Size = r.Size
                           /\ (l.Checksum = "" \/ r.Checksum = "" \/ l.Checksum # r.Checksum))
        /\ \A k \in {1, 3, 4, 5} : \A i \in DOMAIN Phase1Lists[k] :
             Phase1Lists[k][i].Size = MetaAt(localFiles, Phase1Lists[k][i].Path).Size
        /\ \A i \in DOMAIN phase1Result.DeletedItems :
             phase1Result.DeletedItems[i].Size
                 = MetaAt(s3Objects, phase1Result.DeletedItems[i].Path).Size

\* a comparison that finds one file identical and one in need of a checksum
\* although both sides carry one (the two differ)
C3_Witness ==
    /\ Phase1Done
    /\ Len(phase1Result.Identical) = 1
    /\ \E i \in DOMAIN phase1Result.NeedChecksum :
         LET p == phase1Result.NeedChecksum[i].Path
         IN  /\ MetaAt(localFiles, p).Checksum # ""
             /\ MetaAt(s3Objects, p).Checksum # ""

\* the plan's items with the key of the path
ItemsAt(path) ==
    {i \in DOMAIN items : items[i].S3Key = Join(S3Prefix(prefix), path)}

\* the ChecksumData entries of the path whose two checksums are equal
MatchingSums(path) ==
    {i \in DOMAIN checksums :
        /\ checksums[i].ItemRef.Path = path
        /\ checksums[i].SourceChecksum = checksums[i].DestChecksum}

\* local and remote hold the same paths with equal sizes and equal non-empty
\* checksums
SameOnBothSides ==
    /\ PathsOf(localFiles) = PathsOf(s3Objects)
    /\ \A p \in PathsOf(localFiles) :
         /\ MetaAt(localFiles, p).Size = MetaAt(s3Objects, p).Size
         /\ MetaAt(localFiles, p).Checksum # ""
         /\ MetaAt(localFiles, p).Checksum = MetaAt(s3Objects, p).Checksum

\* C4: the plan of Phase3GeneratePlan has no item for a path of Identical nor
\* for a path of NeedChecksum whose ChecksumData has equal checksums; and when
\* both sides hold the same paths with equal sizes and equal non-empty
\* checksums and delete is disabled, the plan is empty.
C4_NoItemForUnchanged ==
    pc = "pure3" =>
        /\ \A i \in DOMAIN phase1Result.Identical :
             ItemsAt(phase1Result.Identical[i].Path) = {}
        /\ \A i \in DOMAIN phase1Result.NeedChecksum :
             MatchingSums(phase1Result.NeedChecksum[i].Path) # {}
                 => ItemsAt(phase1Result.NeedChecksum[i].Path) = {}
        /\ (SameOnBothSides /\ ~deleteEnabled) => items = <<>>

\* a plan made from one identical file and one file whose fetched checksums match
C4_Witness ==
    /\ pc = "pure3"
    /\ Len(phase1Result.Identical) = 1
    /\ Len(phase1Result.NeedChecksum) = 1
    /\ MatchingSums(phase1Result.NeedChecksum[1].Path) # {}

\* the refs of NeedChecksum whose ChecksumData has two different checksums
DifferingRefs ==
    SelectSeq(phase1Result.NeedChecksum,
              LAMBDA ref : \E i \in DOMAIN checksums :
                  /\ checksums[i].ItemRef.Path = ref.Path
                  /\ checksums[i].SourceChecksum # checksums[i].DestChecksum)

\* exactly one item of the plan has the key of ref, and it has the given
\* action, reason and local path
OneItem(ref, action, reason, localPath) ==
    /\ Cardinality(ItemsAt(ref.Path)) = 1
    /\ \A i \in ItemsAt(ref.Path) :
         /\ items[i].Action = action
         /\ items[i].Reason = reason
         /\ items[i].LocalPath = localPath
         /\ items[i].Size = ref.Size

\* C5: the plan holds exactly one Upload "new file" per NewItems path, one
\* Upload "size differs" per SizeMismatch path, one Upload "checksum differs"
\* per NeedChecksum path whose checksums differ, one Delete "deleted locally"
\* with empty LocalPath per DeletedItems path, and nothing else.
C5_ActionReasonMapping ==
    pc = "pure3" =>
        /\ \A i \in DOMAIN phase1Result.NewItems :
             LET ref == phase1Result.NewItems[i]
             IN  OneItem(ref, ActionUpload, "new file", Join(LocalBase, ref.Path))
        /\ \A i \in DOMAIN phase1Result.SizeMismatch :
             LET ref == phase1Result.SizeMismatch[i]
             IN  OneItem(ref, ActionUpload, "size differs", Join(LocalBase, ref.Path))
        /\ \A i \in DOMAIN DifferingRefs :
             LET ref == DifferingRefs[i]
             IN  OneItem(ref, ActionUpload, "checksum differs", Join(LocalBase, ref.Path))
        /\ \A i \in DOMAIN phase1Result.DeletedItems :
             OneItem(phase1Result.DeletedItems[i], ActionDelete, "deleted locally", <<>>)
        /\ Len(items) = Len(phase1Result.NewItems) + Len(phase1Result.SizeMismatch)
                          + Len(DifferingRefs) + Len(phase1Result.DeletedItems)
        /\ \A i \in DOMAIN items :
             items[i].Reason \in
                 {"new file", "size differs", "checksum differs", "deleted locally"}

\* a plan with all four reasons is out of reach of two-entry lists; this one
\* has a delete, an upload for a differing checksum and one more upload
C5_Witness ==
    /\ pc = "pure3"
    /\ Len(phase1Result.DeletedItems) = 1
    /\ Len(DifferingRefs) = 1
    /\ Len(phase1Result.NewItems) + Len(phase1Result.SizeMismatch) = 1
    /\ Len(items) = 3

\* the ItemRefs are in strictly ascending order of path
SortedByPath(refs) ==
    \A i \in 1..(Len(refs) - 1) : StrLess(refs[i].Path, refs[i + 1].Path)

\* C6: every list of the Phase1Result is sorted ascending by path; in the plan
\* every Delete comes before every Upload and, within one action, the items
\* are in ascending order of S3Key.
C6_OutputOrdering ==
    /\ Phase1Done => \A k \in 1..5 : SortedByPath(Phase1Lists[k])
    /\ pc = "pure3" =>
         \A i, j \in DOMAIN items :
            i < j =>
               /\ ~(items[i].Action = ActionUpload /\ items[j].Action = ActionDelete)
               /\ items[i].Action = items[j].Action
                      => StrLess(items[i].S3Key, items[j].S3Key)

\* a plan with two uploads after a delete whose key sorts after theirs
C6_Witness ==
    /\ pc = "pure3"
    /\ Len(items) = 3
    /\ items[1].Action = ActionDelete
    /\ items[2].Action = ActionUpload
    /\ StrLess(items[2].S3Key, items[1].S3Key)

\* the keys of the map of a metadata list, in the order of the list
CanonOrder(list) == MapSeq(list, LAMBDA m : m.Path)

\* C7: whatever the order of the two input lists and of the map iterations,
\* Phase1Compare returns the result it returns for the path-sorted lists; and
\* whatever the order of the phase-1 lists and of the checksum list,
\* Phase3GeneratePlan returns the plan it returns for the sorted ones.
C7_Determinism ==
    /\ Phase1Done =>
         phase1Result = Phase1Compare(localFiles, s3Objects, deleteEnabled,
                                      CanonOrder(localFiles), CanonOrder(s3Objects))
    /\ pc = "pure3" =>
         items = Phase3GeneratePlan(phase1Result, checksums, LocalBase, S3Prefix(prefix))

\* a plan made from two files in need of a checksum, both found to differ
C7_Witness ==
    /\ pc = "pure3"
    /\ Len(phase1Result.NeedChecksum) = 2
    /\ Len(checksums) = 2
    /\ Len(items) = 2

(***************************************************************************)
(* Properties of the run.                                                  *)
(***************************************************************************)
\* Plan has returned a plan: run is past its call of Plan and has not ended
\* on an error of Plan
PlanSucceeded == pc # "start" /\ ~(pc = "done" /\ exitCode = 1 /\ results = <<>>)

\* the run has ended, Execute was not skipped for --dryrun, and no item failed
Converged == pc = "done" /\ exitCode = 0 /\ ~dryRun

\* the object the store holds for a file
ObjectOf(file) == [Size |-> file.Size, Checksum |-> file.Sum]

\* the upload items of the plan for the relative path
UploadsOf(path) ==
    {i \in DOMAIN items :
        /\ items[i].Action = ActionUpload
        /\ items[i].LocalPath = Join(LocalBase, path)
        /\ items[i].S3Key = Join(S3Prefix(prefix), path)}

\* the items of the plan that name the relative path, by its file or by its key
ItemsNaming(path) ==
    {i \in DOMAIN items :
        \/ items[i].LocalPath = Join(LocalBase, path)
        \/ items[i].S3Key = Join(S3Prefix(prefix), path)}

\* C1: when Plan succeeds and Execute reports no error for any item, then
\* (a) every local path that no pattern excludes has an object at prefix/path
\* with the file's size and checksum, (b) with delete enabled no object remains
\* whose relative path is not excluded and not in the local tree, and the
\* objects whose relative path is excluded are as they were.
C1_Convergence ==
    Converged =>
        /\ \A p \in DOMAIN fs :
             ~IsExcluded(p, excludes) =>
                 /\ KeyUnder(prefix, p) \in DOMAIN store
                 /\ store[KeyUnder(prefix, p)] = ObjectOf(fs[p])
        /\ deleteEnabled =>
             \A p \in RunPaths :
                 (~IsExcluded(p, excludes) /\ p \notin DOMAIN fs) =>
                     KeyUnder(prefix, p) \notin DOMAIN store
        /\ \A p \in RunPaths :
             IsExcluded(p, excludes) =>
                 /\ KeyUnder(prefix, p) \in DOMAIN store <=> KeyUnder(prefix, p) \in DOMAIN store0
                 /\ KeyUnder(prefix, p) \in DOMAIN store =>
                        store[KeyUnder(prefix, p)] = store0[KeyUnder(prefix, p)]

\* the same with the destination given without a trailing slash
C1_ConvergenceNoTrailingSlash ==
    (Converged /\ (prefix = <<>> \/ prefix[Len(prefix)] # "/")) =>
        /\ \A p \in DOMAIN fs :
             ~IsExcluded(p, excludes) =>
                 /\ KeyUnder(prefix, p) \in DOMAIN store
                 /\ store[KeyUnder(prefix, p)] = ObjectOf(fs[p])
        /\ deleteEnabled =>
             \A p \in RunPaths :
                 (~IsExcluded(p, excludes) /\ p \notin DOMAIN fs) =>
                     KeyUnder(prefix, p) \notin DOMAIN store
        /\ \A p \in RunPaths :
             IsExcluded(p, excludes) =>
                 /\ KeyUnder(prefix, p) \in DOMAIN store <=> KeyUnder(prefix, p) \in DOMAIN store0
                 /\ KeyUnder(prefix, p) \in DOMAIN store =>
                        store[KeyUnder(prefix, p)] = store0[KeyUnder(prefix, p)]

C10_DryRunNoMutation ==
    dryRun =>
        /\ \A c \in calls : c.op \in {"ListObjects", "HeadObject"}
        /\ store = store0

\* a dry run that has ended with a plan of an upload and a delete, after a
\* HeadObject call
C10_Witness ==
    /\ dryRun
    /\ pc = "done"
    /\ \E i, j \in DOMAIN items :
         items[i].Action = ActionUpload /\ items[j].Action = ActionDelete
    /\ \E c \in calls : c.op = "HeadObject"

\* the object the item's remote call addresses
TargetKey(item) == parseS3Key(item.S3Key).key

\* the item's effect is in the bucket: an upload's object carries the size and
\* the checksum of its file, a delete's object is gone
Applied(item) ==
    IF item.Action = ActionUpload
    THEN /\ TargetKey(item) \in DOMAIN store
         /\ \E p \in OpenFile(fs, item.LocalPath) :
                store[TargetKey(item)] = [Size |-> fs[p].Size, Checksum |-> fs[p].Sum]
    ELSE TargetKey(item) \notin DOMAIN store

SomeItemFailed == \E i \in DOMAIN results : results[i].Error # "nil"

\* C14: a run ends with exit status 0 only if Plan returned no error and no result
\* carries an error; a run that has ended after Plan failed or after an item
\* failed has exit status 1, and in the latter case the effect of every item
\* whose result carries no error is in the bucket
C14_ExitStatus ==
    /\ pc = "done" /\ exitCode = 0 => planErr = "nil" /\ ~SomeItemFailed
    /\ pc = "done" /\ (planErr # "nil" \/ SomeItemFailed) => exitCode = 1
    /\ pc = "done" /\ SomeItemFailed =>
          \A i \in DOMAIN results :
              results[i].Error = "nil" => Applied(results[i].Item)

\* a run has ended with exit status 1 after one item failed and another, an
\* upload, succeeded
C14_Witness ==
    /\ pc = "done" /\ exitCode = 1 /\ planErr = "nil"
    /\ \E i, j \in DOMAIN results :
          /\ results[i].Error # "nil"
          /\ results[j].Error = "nil"
          /\ results[j].Item.Action = ActionUpload
          /\ store # store0

\* C17: when Plan fails it returns no items and the run ends with exit status
\* 1; no stage after the failed one has run (no remote call after a failed
\* walk, none but ListObjects after a failed listing or exclusion check, no
\* checksum list after a failed phase 2), Execute has not started and the
\* bucket is as it was
C17_PlanFailFast ==
    planErr # "nil" =>
        /\ items = <<>>
        /\ pc = "done" /\ exitCode = 1
        /\ results = <<>> /\ gpc = <<>>
        /\ store = store0
        /\ \A c \in calls : c.op \in {"ListObjects", "HeadObject"}
        /\ planErr = "gather" => calls = {} /\ localFiles = <<>>
        /\ planErr \in {"list", "exclude"} =>
              /\ calls = {Call("ListObjects", prefix)}
              /\ phase1Result = EmptyPhase1
        /\ planErr \in {"gather", "list", "exclude", "collect"} => checksums = <<>>

\* ListObjects has failed in a run whose tree and bucket hold a file of one
\* path and one size, which phase 2 would have looked up
C17_Witness ==
    /\ planErr = "list"
    /\ \E p \in DOMAIN fs :
          /\ ~IsExcluded(p, excludes)
          /\ KeyUnder(prefix, p) \in DOMAIN store0
          /\ store0[KeyUnder(prefix, p)].Size = fs[p].Size

(***************************************************************************)
(* Properties of the executor.                                             *)
(***************************************************************************)
Returned == pc = "returned"

\* the entries of results whose Item is the item
ResultsOf(item) == {j \in DOMAIN results : results[j].Item = item}

\* C11: the list Execute returns has one entry per item of the plan, and every
\* item of the plan is the Item of exactly one entry, for every concurrency
\* and every interleaving of the goroutines.
C11_OneResultPerItem ==
    Returned =>
        /\ Len(results) = Len(items)
        /\ \A i \in DOMAIN items : Cardinality(ResultsOf(items[i])) = 1

\* Execute has returned the results of a plan of three items that it ran one
\* at a time, one of them failing
C11_Witness ==
    /\ Returned
    /\ Len(items) = 3
    /\ concurrency = 1
    /\ Cardinality(failing) = 1
    /\ \A i \in DOMAIN items : results[i].Item = items[i]

\* the key of the item's object
KeyOf(item) == parseS3Key(item.S3Key).key

\* the object at the key is as it was before Execute
Untouched(key) ==
    /\ key \in DOMAIN store <=> key \in DOMAIN store0
    /\ key \in DOMAIN store => store[key] = store0[key]

\* what has become of item i once Execute has returned: its remote call was
\* issued unless its file could not be opened, the call's outcome is in the
\* bucket, and its Result, and no other, carries its error
Attempted(i) ==
    LET item   == items[i]
        opened == OpenFile(fs, item.LocalPath)
    IN  /\ results[i].Item = item
        /\ IF item.Action = ActionUpload /\ opened = {}
           THEN /\ results[i].Error = "error"
                /\ Untouched(KeyOf(item))
           ELSE /\ results[i].Error = (IF i \in failing THEN "error" ELSE "nil")
                /\ i \in failing => Untouched(KeyOf(item))
                /\ IF item.Action = ActionUpload
                   THEN /\ Call("PutObject", KeyOf(item)) \in calls
                        /\ i \notin failing =>
                             /\ KeyOf(item) \in DOMAIN store
                             /\ store[KeyOf(item)] = ObjectOf(fs[CHOOSE p \in opened : TRUE])
                   ELSE /\ Call("DeleteObject", KeyOf(item)) \in calls
                        /\ i \notin failing => KeyOf(item) \notin DOMAIN store

AllAttempted == Returned => \A i \in DOMAIN items : Attempted(i)

\* Execute is never stuck: while it runs, a goroutine holds the semaphore and
\* can run to its end, or one waits and the semaphore has room, or all are done
\* and Execute can return
NeverStuck ==
    pc = "executing" =>
        \/ \E i \in DOMAIN gpc : gpc[i] = "run"
        \/ \E i \in DOMAIN gpc : gpc[i] = "wait" /\ SemHasRoom(gpc, concurrency)
        \/ \A i \in DOMAIN gpc : gpc[i] = "done"

\* C12: whichever items fail, no item's failure holds up another item, and
\* when Execute returns every item has been attempted: its remote call was
\* issued and the outcome applied, and an item's error is in that item's
\* Result and in no other.
C12_PartialFailure == AllAttempted /\ NeverStuck

\* Execute has returned with the first item failed and the two after it
\* applied
C12_Witness ==
    /\ Returned
    /\ Len(items) = 3
    /\ failing = {1}
    /\ results[1].Error = "error" /\ results[2].Error = "nil" /\ results[3].Error = "nil"
    /\ \A i \in DOMAIN items : Attempted(i)
    /\ store # store0

\* C13: at every moment of Execute the number of goroutines that hold the
\* semaphore, and so the number of remote operations in progress, is at most
\* the concurrency given to NewExecutor, or at most 32 when that is <= 0.
C13_BoundedConcurrency ==
    Cardinality({i \in DOMAIN gpc : gpc[i] = "run"})
        <= (IF concurrency <= 0 THEN DefaultConcurrency ELSE concurrency)

\* two operations are in progress under a concurrency of 2 while a third
\* goroutine waits for the semaphore
C13_Witness ==
    /\ pc = "executing"
    /\ concurrency = 2
    /\ Cardinality(Running(gpc)) = 2
    /\ \E i \in DOMAIN gpc : gpc[i] = "wait"

(***************************************************************************)
(* Properties of Phase2CollectChecksums (checked under SpecPhase2).        *)
(***************************************************************************)
Phase2Done == pc = "phase2done"

\* the key "prefix/path", "path" without a prefix
PrefixedKey(path) == IF prefix = <<>> THEN path ELSE prefix \o <<"/">> \o path

\* the item's file can be read; the item's object exists
Readable(ref) == ref.Path \in DOMAIN fs

Present(ref) == PrefixedKey(ref.Path) \in DOMAIN store

C16_Phase2FailFast ==
    Phase2Done =>
        LET refs == phase1Result.NeedChecksum
        IN  /\ (\E i \in DOMAIN refs : ~Readable(refs[i]) \/ ~Present(refs[i])) =>
                  planErr = "collect" /\ checksums = <<>>
            /\ \A i \in DOMAIN refs :
                  ~Readable(refs[i]) =>
                      Call("HeadObject", PrefixedKey(refs[i].Path)) \notin calls
            /\ refs = <<>> => planErr = "nil" /\ checksums = <<>> /\ calls = {}

\* a call has failed at its third item, whose file cannot be read, after the
\* lookups of the first two
C16_Witness ==
    /\ Phase2Done /\ planErr = "collect"
    /\ Len(phase1Result.NeedChecksum) = 3
    /\ ~Readable(phase1Result.NeedChecksum[3])
    /\ Present(phase1Result.NeedChecksum[3])
    /\ Cardinality(calls) = 2

(***************************************************************************)
(* Properties of the retry wrappers (checked under SpecRetry).             *)
(***************************************************************************)
RetryDone == pc = "retry_done"

Min(a, b) == IF a <= b THEN a ELSE b

\* the wrapper returned at "case <-ctx.Done()"
ReturnedCancelled == RetryDone /\ ret.err = CtxErr

\* C18: the operation is never invoked more than maxRetries + 1 times; when it
\* fails opFails times with transient errors and then succeeds, a call that the
\* context's cancellation has not ended invokes it Min(opFails, maxRetries) + 1
\* times, returns the output exactly when opFails <= maxRetries, and after a
\* success the successful invocation is the last one
C18_RetryAttemptBound ==
    /\ invocations <= maxRetries + 1
    /\ RetryDone /\ opThen = NoErr /\ ~ReturnedCancelled =>
          /\ invocations = Min(opFails, maxRetries) + 1
          /\ ret.out <=> opFails <= maxRetries
    /\ RetryDone /\ ret.out =>
          lastOutcome = NoErr /\ invocations = opFails + 1 /\ ret.err = NoErr

\* a call has succeeded at its last attempt, after maxRetries failures
C18_Witness ==
    /\ RetryDone /\ opThen = NoErr
    /\ opFails = maxRetries
    /\ ret.out
    /\ invocations = maxRetries + 1

\* an error of one of the kinds named retryable: a throttling,
\* service-unavailable or request-timeout code, a 5xx status, a deadline or an
\* unexpected EOF
ClassifiedRetryable(err) ==
    \/ err.code \in {"SlowDown", "ServiceUnavailable", "RequestTimeout",
                     "RequestTimeoutException"}
    \/ err.status >= 500 /\ err.status < 600
    \/ err.net \in {"deadline", "eof"}

C20_RetryExhaustion ==
    RetryDone /\ invocations = maxRetries + 1 /\ lastOutcome \in TransientErrors =>
        /\ ret = Return(FALSE, lastOutcome, TRUE)
        /\ waits = maxRetries

\* deleteObjectWithRetry has returned "max retries exceeded" around an error
\* unlike the one the attempt before the last had left in lastErr
C20_Witness ==
    /\ RetryDone /\ rop = "delete"
    /\ ret.exhausted
    /\ ret.err = NetError("eof")
    /\ invocations = maxRetries + 1 /\ waits = maxRetries

(***************************************************************************)
(* Properties of the numeric helpers (SpecNumeric).                        *)
(***************************************************************************)
NumericDone(fn) == pc = "numeric_done" /\ num.fn = fn

\* base * 2^n for the call's attempt number n
Nominal == defaultBaseDelay * 2^num.attempt

\* C21: for every attempt number and every jitter draw, the delay
\* calculateDelay returns never exceeds the maximum delay, and whenever
\* 1.25 * base * 2^n does not exceed the maximum, the delay lies between
\* 0.75 * base * 2^n and 1.25 * base * 2^n.
C21_BackoffBounds ==
    NumericDone("calculateDelay") =>
        /\ num.out <= defaultMaxDelay
        /\ 5 * Nominal <= 4 * defaultMaxDelay =>
             /\ 3 * Nominal <= 4 * num.out
             /\ 4 * num.out <= 5 * Nominal

\* a delay below base * 2^n, which the conversion to a duration has truncated
C21_Witness ==
    /\ NumericDone("calculateDelay")
    /\ 5 * Nominal <= 4 * defaultMaxDelay
    /\ num.out < Nominal
    /\ num.out * 4 * JitterSteps \notin
         {Nominal * (3 * JitterSteps + 2 * j) : j \in 0..(JitterSteps - 1)}

\* the number of parts of a file of [mib, rem] bytes cut in parts of p MiB:
\* ceil(S / P)
PartCount(mib, rem, p) ==
    LET whole == IF rem = 0 THEN mib ELSE mib + 1
    IN  (whole + p - 1) \div p

\* C22: for every file size at or above the multipart threshold, the part
\* size calculatePartSize returns is a whole number of MiB, lies between
\* 5 MiB and 5 GiB, and cuts the file in at most 10000 parts.
C22_MultipartSizing ==
    NumericDone("calculatePartSize") =>
        /\ num.outRem = 0
        /\ MinPartSize <= num.out /\ num.out <= MaxPartSize
        /\ PartCount(num.mib, num.rem, num.out) <= MaxParts

\* a file cut in exactly 10000 parts, of more than the default part size
C22_Witness ==
    /\ NumericDone("calculatePartSize")
    /\ num.out > DefaultPartSize
    /\ PartCount(num.mib, num.rem, num.out) = MaxParts

(***************************************************************************)
(* Properties of parallelGatherLocalFiles (SpecScan).                      *)
(***************************************************************************)
ScanDone == pc = "scan_done"

\* the directories whose reading fails with the given kind of error
FailingDirs(kind) == {d \in DOMAIN dirErr : dirErr[d] = kind}

\* the files a sequential walk of a readable tree returns: gatherLocalFiles'
\* items, none when IsExcluded fails on a file (the walk then stops with the
\* error, before any file was kept)
WalkFiles ==
    IF \E p \in DOMAIN fs : IsExcludedErr(p, excludes) THEN <<>>
    ELSE gatherLocalFiles(fs, excludes)

Ancestors(p) ==
    {<<>>} \cup {JoinSlash(SubSeq(SplitSlash(p), 1, k)) : k \in 1..(Len(SplitSlash(p)) - 1)}

\* the directories the scan reads: those below no directory that cannot be read
ReadDirs == {d \in DOMAIN dirErr : \A a \in Ancestors(d) : a = d \/ dirErr[a] = "nil"}

\* the files outside the unreadable subtrees that IsExcluded accepts
ReachableFiles ==
    {p \in DOMAIN fs : /\ \A a \in Ancestors(p) : dirErr[a] = "nil"
                       /\ ~IsExcludedErr(p, excludes)
                       /\ ~IsExcluded(p, excludes)}

C24_WitnessPermission ==
    /\ ScanDone
    /\ FailingDirs("io") = {} /\ FailingDirs("perm") \cap ReadDirs # {}
    /\ scanRet.err = NoDirErr
    /\ scanRet.items # <<>>
    /\ Len(scanRet.items) < Cardinality(DOMAIN fs)
    /\ excludes = <<>>

(***************************************************************************)
(* Properties of package fnmatch (SpecFnmatch).                            *)
(***************************************************************************)
\* the goroutines whose latest call has returned
FnReturned == {g \in DOMAIN mg : mg[g].out.done}

\* what the call of g returns when its pattern is compiled afresh
FreshList(g) ==
    SelectSeq(mg[g].names, LAMBDA nm : MatchRunes(Translate(mg[g].pattern), Decode(nm)))

\* C25: in every interleaving of Match and Filter calls, each call returns
\* what compiling its pattern afresh gives, whether it hit the cache or not;
\* every cache entry, also one stored twice by goroutines that missed
\* together, is an expression compiled from its own key by one of the
\* goroutines, so that no entry is returned for another pattern.
C25_CacheTransparency ==
    /\ \A g \in FnReturned : ~mg[g].out.err /\ mg[g].out.list = FreshList(g)
    /\ \A q \in DOMAIN patternCache :
         /\ patternCache[q].prog = Translate(q)
         /\ patternCache[q].by \in DOMAIN mg

\* two goroutines missed on the same pattern and each compiled and stored it,
\* h after g; a later Filter call of h with the pattern then hit the entry
C25_Witness ==
    \E g, h \in FnReturned :
        /\ g # h /\ mg[g].pattern = mg[h].pattern
        /\ ~mg[g].ok /\ mg[g].re.by = g
        /\ mg[h].ok /\ mg[h].re.by = h
        /\ patternCache[mg[h].pattern].by = h
        /\ mg[h].op = "Filter"
        /\ mg[h].out.list # <<>> /\ Len(mg[h].out.list) < Len(mg[h].names)

\* the bytes with a meaning in a pattern
Special == {"*", "?", "["}

\* what the statement says of the call of Match that goroutine g made
MatcherSemantics(g) ==
    LET pattern == mg[g].pattern
        name    == mg[g].names[1]
        ok      == mg[g].out.list # <<>>
        chars   == Decode(name)
    IN  \* a run of "*" matches every name, also the empty one and one with "/"
        /\ (pattern # <<>> /\ \A i \in DOMAIN pattern : pattern[i] = "*") => ok
        \* "?" matches exactly one character
        /\ pattern = <<"?">> => (ok <=> Len(chars) = 1)
        \* "[!ab]" matches exactly one character that is neither a nor b
        /\ pattern = <<"[", "!", "a", "b", "]">> =>
             (ok <=> Len(chars) = 1 /\ chars[1] \notin {"a", "b"})
        \* a literal pattern, the empty one too, matches the identical name only
        /\ (\A i \in DOMAIN pattern : pattern[i] \notin Special) => (ok <=> name = pattern)
        \* a "[" that no "]" closes stands for itself
        /\ (\A i \in DOMAIN pattern : pattern[i] \notin {"*", "?", "]"}) =>
             (ok <=> name = pattern)

\* C26: Match follows the matcher semantics for every pattern and name: "*"
\* and runs of "*" match any sequence, "?" one character, "[!...]" one
\* character outside the set, a literal pattern only the identical name, the
\* empty pattern only the empty name, an unclosed "[" itself.
C26_MatcherSemantics ==
    \A g \in FnReturned : mg[g].op = "Match" => MatcherSemantics(g)

\* C26 for the patterns made of ASCII characters
C26_MatcherSemanticsAscii ==
    \A g \in FnReturned :
        mg[g].op = "Match" /\ (\A i \in DOMAIN mg[g].pattern : mg[g].pattern[i] \notin {"C3", "A9"})
            => MatcherSemantics(g)

(***************************************************************************)
(* Properties of the report files (Spec).                                  *)
(***************************************************************************)
\* a remote mutation has been issued
Mutated == \E c \in calls : c.op \in {"PutObject", "DeleteObject"}

\* every goroutine of Execute has finished its item
AllItemsFinished == \A i \in DOMAIN items : i \in DOMAIN gpc /\ gpc[i] = "done"

\* C27: a requested plan file is written once Plan has succeeded, holds the
\* plan, and is written in a step before which and in which no remote mutation
\* has been issued; the result file is written only when requested, only in a
\* run that is not a dry run, only when every item of the plan has finished,
\* and nothing is executed after it; a dry run never writes a result file.
C27_ReportOrdering ==
    /\ [](/\ report.plan # <<>> =>
               /\ report.planJSONFile /\ planErr = "nil" /\ pc \in {"executing", "done"}
               /\ report.plan[1] = PlanResult(items)
          /\ (report.planJSONFile /\ planErr = "nil" /\ pc \in {"executing", "done"})
               => report.plan # <<>>
          /\ (Mutated /\ report.planJSONFile) => report.plan # <<>>
          /\ report.result # <<>> =>
               report.resultJSONFile /\ ~dryRun /\ pc = "done" /\ AllItemsFinished
          /\ dryRun => report.result = <<>>)
    /\ [][/\ report'.plan # report.plan => ~Mutated'
          /\ report'.result # report.result => AllItemsFinished'
          /\ report.result # <<>> => calls' = calls /\ store' = store]_vars

\* both files were requested; the run wrote the plan file, executed a plan of
\* two items or more with remote mutations, and wrote the result file
C27_Witness ==
    /\ pc = "done" /\ ~dryRun /\ Len(items) >= 2 /\ Mutated
    /\ report.planJSONFile /\ report.resultJSONFile
    /\ report.plan # <<>> /\ report.result # <<>>
    /\ store # store0

\* the result file of a run that executed its plan
Reported == pc = "done" /\ report.result # <<>> /\ Len(results) > 0

\* how many entries of a list of the report carry the target, with an action
\* among the given ones
Entries(list, target, actions) ==
    Cardinality({j \in DOMAIN list : list[j].Target = target /\ list[j].Action \in actions})

\* C28: in the result file each result of Execute is counted exactly once: a
\* result with an error in errors and in failed; one without as created (an
\* upload with reason "new file"), updated (any other upload) or deleted (a
\* delete), in files and in the summary; created + updated + deleted + failed
\* and len(files) + len(errors) both equal the number of items executed.
C28_ResultAccounting ==
    Reported =>
      LET sr     == report.result[1]
          failed == {i \in DOMAIN results : results[i].Error # "nil"}
          class(i) == IF results[i].Item.Action = ActionDelete THEN "deleted"
                      ELSE IF results[i].Item.Reason = "new file" THEN "created"
                      ELSE "updated"
          ok(a)  == {i \in DOMAIN results \ failed : class(i) = a}
          all    == {"created", "updated", "deleted", "skipped", "create", "update", "delete",
                     "skip"}
      IN  /\ Len(results) = Len(items)
          /\ \A i \in DOMAIN results :
               \E t \in {formatS3Path(results[i].Item.S3Key)} :
                 IF i \in failed
                 THEN Entries(sr.Errors, t, all) = 1 /\ Entries(sr.Files, t, all) = 0
                 ELSE /\ Entries(sr.Errors, t, all) = 0 /\ Entries(sr.Files, t, all) = 1
                      /\ Entries(sr.Files, t, {class(i)}) = 1
          /\ sr.Summary.Failed = Cardinality(failed)
          /\ sr.Summary.Created = Cardinality(ok("created"))
          /\ sr.Summary.Updated = Cardinality(ok("updated"))
          /\ sr.Summary.Deleted = Cardinality(ok("deleted"))
          /\ sr.Summary.Created + sr.Summary.Updated + sr.Summary.Deleted
               + sr.Summary.Failed = Len(items)
          /\ Len(sr.Files) + Len(sr.Errors) = Len(items)

\* a result file with an update and a failure
C28_Witness ==
    /\ Reported
    /\ report.result[1].Summary.Updated >= 1
    /\ report.result[1].Summary.Failed >= 1

\* a result file with a creation, a deletion and a failure
C28_WitnessThree ==
    /\ Reported
    /\ report.result[1].Summary.Created >= 1
    /\ report.result[1].Summary.Deleted >= 1
    /\ report.result[1].Summary.Failed >= 1

(***************************************************************************)
(* Properties of the remote calls of Plan (Spec).                          *)
(***************************************************************************)
\* how many times Plan called HeadObject with the key of the path
HeadCount(path) ==
    Cardinality({i \in DOMAIN planCalls :
                    planCalls[i] = Call("HeadObject", KeyUnder(prefix, path))})

\* the paths phase 1 put in a class other than NeedChecksum
OtherClasses ==
    PathsOf(phase1Result.NewItems) \cup PathsOf(phase1Result.SizeMismatch)
        \cup PathsOf(phase1Result.Identical) \cup PathsOf(phase1Result.DeletedItems)

\* C29: Plan calls HeadObject only with the keys of the paths in
\* Phase1Result.NeedChecksum, once for each when phase 2 ends without an error
\* and never twice, and with no path of NewItems, SizeMismatch, Identical or
\* DeletedItems; every HeadObject call follows the ListObjects call, which is
\* the first call of Plan, and all are issued in the step of Plan, before a
\* plan is returned: no later step issues one.
C29_HeadOnlyNeedChecksum ==
    /\ [](pc # "start" =>
            /\ \A i \in DOMAIN planCalls :
                 planCalls[i].op = "HeadObject" =>
                    /\ i > 1 /\ planCalls[1] = Call("ListObjects", prefix)
                    /\ \E r \in Range(phase1Result.NeedChecksum) :
                         planCalls[i].key = KeyUnder(prefix, r.Path)
            /\ \A i \in DOMAIN planCalls : i > 1 => planCalls[i].op = "HeadObject"
            /\ \A r \in Range(phase1Result.NeedChecksum) :
                 /\ HeadCount(r.Path) <= 1
                 /\ planErr \in {"nil", "calculate"} => HeadCount(r.Path) = 1
            /\ \A path \in OtherClasses : HeadCount(path) = 0
            /\ {c \in calls : c.op \in {"ListObjects", "HeadObject"}} = Range(planCalls))
    /\ [][planCalls' # planCalls => pc = "start" /\ items = <<>>]_vars

\* Plan succeeded with a path in NeedChecksum and a path in another class: it
\* called ListObjects and then HeadObject once, and the run went on to the end
C29_Witness ==
    /\ pc = "done" /\ planErr = "nil"
    /\ Len(phase1Result.NeedChecksum) = 1 /\ OtherClasses # {}
    /\ Len(planCalls) = 2 /\ planCalls[2].op = "HeadObject"
    /\ Mutated

\* Plan called HeadObject for two paths
C29_WitnessTwo ==
    /\ pc # "start" /\ planErr = "nil"
    /\ Len(phase1Result.NeedChecksum) = 2 /\ Len(planCalls) = 3

(***************************************************************************)
(* Properties of Pool.multipartUpload (SpecMultipart).                     *)
(***************************************************************************)
\* the positions of the calls of an operation among the calls made so far
CallsOf(op) == {i \in DOMAIN mp.calls : mp.calls[i].op = op}

\* multipartUpload has called CompleteMultipartUpload
Completed == mp.st = "returned" /\ CallsOf("CompleteMultipartUpload") # {}

\* the order and the content of the calls: CreateMultipartUpload once and
\* first; then UploadPart with the numbers 1, 2, ... in turn, each part
\* following the one before it in the file and holding partSize bytes, the last
\* one of a finished upload what is left; CompleteMultipartUpload once, last,
\* after the whole file, with one entry per part, in the order of the uploads
ProtocolCalls ==
    /\ mp.calls # <<>> => CallsOf("CreateMultipartUpload") = {1}
    /\ \A i \in CallsOf("UploadPart") :
         /\ mp.calls[i].partNumber = i - 1
         /\ mp.calls[i].from = (i - 2) * partSize
         /\ mp.calls[i].size \in 1..partSize
         /\ (i < Len(mp.calls) /\ mp.calls[i + 1].op = "UploadPart")
              => mp.calls[i].size = partSize
    /\ CallsOf("CompleteMultipartUpload") \subseteq {Len(mp.calls)}
    /\ Completed =>
         \E last \in {mp.calls[Len(mp.calls)]} :
         \E n \in {Len(mp.calls) - 2} :
           /\ CallsOf("UploadPart") = 2..(n + 1)
           /\ mp.calls[n + 1].from + mp.calls[n + 1].size = mp.size
           /\ Len(last.parts) = n
           /\ \A i \in 1..n : last.parts[i].ETag = i

\* every entry sent to CompleteMultipartUpload carries the number its part was
\* uploaded under
PartNumbersMatch ==
    Completed =>
        \A i \in DOMAIN mp.calls[Len(mp.calls)].parts :
            mp.calls[Len(mp.calls)].parts[i].PartNumber = mp.calls[i + 1].partNumber

\* C30: for a file uploaded in parts CreateMultipartUpload is called once and
\* first, the parts are uploaded under the numbers 1, 2, ..., n in ascending
\* order, each but possibly the last of partSize bytes, covering the file
\* once, and CompleteMultipartUpload is called once, last, with the n
\* completed parts in ascending order, each entry carrying the number its
\* part was uploaded under.
C30_MultipartProtocol == ProtocolCalls /\ PartNumbersMatch

\* C30 without the part numbers of the entries
C30_ProtocolCalls == ProtocolCalls

\* the part numbers CompleteMultipartUpload is sent: every entry carries the
\* number that follows the last part's
C30_SentPartNumbers ==
    Completed =>
        \A i \in DOMAIN mp.calls[Len(mp.calls)].parts :
            mp.calls[Len(mp.calls)].parts[i].PartNumber = Len(mp.calls) - 1

\* an upload of nine parts, the last of one byte, that completed without error
C30_Reached ==
    /\ Completed /\ mp.err = "nil"
    /\ mp.size = multipartThreshold + 1
    /\ Len(mp.calls) = 11


\* C31: an upload that reached PutObject with a size at or above the
\* multipart threshold (8 MiB) went through the multipart path, one Upload of
\* the upload manager, and not through a direct PutObject; one strictly below
\* went through exactly one direct PutObject and opened no multipart upload;
\* a delete issued exactly one DeleteObject, for the item's key.
Issued(api) == {i \in DOMAIN num.sdk : num.sdk[i].api = api}

C31_WitnessBelow ==
    /\ NumericDone("uploadFile") /\ num.mib = 7 /\ num.rem = 1
    /\ Issued("PutObject") = {1}

\* a delete issued its DeleteObject
C31_WitnessDelete ==
    NumericDone("deleteObject") /\ Issued("DeleteObject") = {1}



\* what a returned or running scan has kept to: no directory is read twice;
\* the queue is closed only when the count of pending directories is zero,
\* and the count then stays zero; and when the scan has returned, every
\* discovered directory has been read exactly once, no other has been read,
\* the queue is closed and empty, no goroutine is left blocked in a send, and
\* every worker has left its loop
ScanSafety ==
    /\ \A d \in DOMAIN reads : reads[d] <= 1
    /\ closed => dirWg = 0
    /\ ScanDone =>
          /\ \A d \in DOMAIN reads : reads[d] = IF d \in ReadDirs THEN 1 ELSE 0
          /\ dirWg = 0 /\ closed /\ dirQueue = <<>> /\ senders = {}
          /\ \A w \in DOMAIN wk : wk[w].st = "exit"

\* C32: under a fair scheduler, for every tree, worker count and outcome of
\* the directory reads, parallelGatherLocalFiles returns, and at every moment
\* ScanSafety holds: every discovered directory is read exactly once, the
\* queue is closed when the pending count has reached zero, and at the
\* return no worker or sender is left blocked.
C32_ScannerTermination == <>ScanDone /\ []ScanSafety

\* a bound on the steps a scan has left: it counts the directories still to
\* be read, the entries still to be handled, the sends and receives still to
\* be made, the close and the return
ScanMeasure ==
    LET WkMeasure(w) == CASE wk[w].st = "exit" -> 0
                          [] wk[w].st = "recv" -> 1
                          [] wk[w].st = "read" -> 2
                          [] OTHER -> 2 + 4 * Len(wk[w].todo)
        RECURSIVE Sum(_)
        Sum(n) == IF n = 0 THEN 0 ELSE WkMeasure(n) + Sum(n - 1)
    IN  20 * Cardinality({d \in ReadDirs : reads[d] = 0})
        + 3 * Cardinality(senders) + 2 * Len(dirQueue) + Sum(Len(wk))
        + (IF closed THEN 0 ELSE 1) + (IF pc = "scan" THEN 1 ELSE 0)

\* the same under any scheduler and on the deeper trees of SpecScan: a scan
\* that has not returned can take a step (no goroutine waits for another
\* that waits for it), every step brings ScanMeasure down, and ScanSafety
\* holds throughout
C32_ScanProgress ==
    /\ [](pc = "scan" =>
            \/ \E w \in DOMAIN wk : wk[w].st \in {"read", "entries"}
            \/ \E w \in DOMAIN wk : wk[w].st = "recv" /\ (dirQueue # <<>> \/ closed)
            \/ senders # {} /\ Len(dirQueue) < QueueCap
            \/ dirWg = 0 /\ ~closed
            \/ \A w \in DOMAIN wk : wk[w].st = "exit")
    /\ [][ScanMeasure' < ScanMeasure]_vars
    /\ []ScanSafety

\* a scan with two workers has returned although two directory reads failed,
\* after a directory had waited in a blocked send because the queue was full
C32_Witness ==
    /\ ScanDone /\ workerCount = 2
    /\ FailingDirs("io") = {<<"d">>, <<"e">>}
    /\ reads = [d \in DOMAIN reads |-> 1]
    /\ scanned # <<>>

\* a directory waits in a blocked send while both workers are busy
C32_WitnessBlockedSend ==
    /\ pc = "scan" /\ senders # {} /\ Len(dirQueue) = QueueCap
    /\ \A w \in DOMAIN wk : wk[w].st # "recv"



\* the goroutines of a scan that have not ended: the workers still in their
\* loop and the goroutines started to send a directory
ScanUnits ==
    Cardinality({w \in DOMAIN wk : wk[w].st # "exit"}) + Cardinality(senders)

\* C33: a scan never runs more concurrent units than its worker pool holds:
\* when the queue is full the worker that found the directory waits for
\* space itself, and no other goroutine is started to do the send.
C33_ScannerBackpressure == ScanUnits <= workerCount

\* what the scan does instead: a worker that finds a directory while the
\* queue is full hands the send to a new goroutine and goes on with the next
\* entry at once, so the goroutines in flight are bounded by the number of
\* directories of the tree, not by the pool
C33_SendersBoundedByTree ==
    /\ [](ScanUnits <= workerCount + Cardinality(DOMAIN dirErr) - 1)
    /\ [][\A w \in DOMAIN wk :
            /\ wk[w].st = "entries" /\ wk'[w] # wk[w] /\ wk[w].todo # <<>>
            /\ Head(wk[w].todo).IsDir /\ Len(dirQueue) = QueueCap
            => /\ senders' = senders \cup {Join(wk[w].dir, Head(wk[w].todo).Name)}
               /\ wk'[w].st = "entries" /\ wk'[w].todo = Tail(wk[w].todo)]_vars

\* a third goroutine is blocked in a send while the two workers go on
C33_Reached ==
    /\ pc = "scan" /\ workerCount = 2 /\ ScanUnits = 3
    /\ \A w \in DOMAIN wk : wk[w].st \in {"read", "entries"}



\* C34: in every interleaving, the directory queue, once closed, stays closed
\* and is never sent to again; and it is closed only when every directory
\* that was queued or handed to a sender has been received and handled to
\* the end: the queue is empty, no goroutine holds a directory to send, no
\* worker is reading a directory or going through its entries, and every
\* discovered directory has been read.
C34_NoUseAfterClose ==
    /\ [](closed =>
            /\ dirQueue = <<>> /\ senders = {}
            /\ \A w \in DOMAIN wk : wk[w].st \in {"recv", "exit"}
            /\ \A d \in ReadDirs : reads[d] = 1)
    /\ [][closed => closed' /\ dirQueue' = dirQueue /\ senders' = senders]_vars

\* the queue has been closed after the single worker found the queue full at
\* the second subdirectory: that directory went through a sender
C34_Witness ==
    /\ pc = "scan" /\ closed /\ workerCount = 1
    /\ {<<"d">>, <<"e">>} \subseteq ReadDirs
    /\ reads[<<"d">>] = 1 /\ reads[<<"e">>] = 1



\* the entries of the checksum list with exactly this path
EntriesFor(path) == {i \in DOMAIN checksums : checksums[i].ItemRef.Path = path}

\* C35: in the plan of Phase3GeneratePlan, a path of NeedChecksum for which
\* the checksum list holds no entry has no item at all, and a path of
\* NeedChecksum has an item only if the list holds an entry with exactly that
\* path whose two checksums differ; the item is then one upload.
C35_DropsUnverified ==
    pc = "pure3" =>
        \A i \in DOMAIN phase1Result.NeedChecksum :
            \E path \in {phase1Result.NeedChecksum[i].Path} :
                /\ EntriesFor(path) = {} => ItemsAt(path) = {}
                /\ ItemsAt(path) # {} =>
                     /\ \E e \in EntriesFor(path) :
                          checksums[e].SourceChecksum # checksums[e].DestChecksum
                     /\ Cardinality(ItemsAt(path)) = 1
                     /\ \A k \in ItemsAt(path) : items[k].Action = ActionUpload

\* of two paths of NeedChecksum, the one without an entry has no item and the
\* one whose entry has differing checksums is uploaded
C35_Witness ==
    /\ pc = "pure3"
    /\ Len(phase1Result.NeedChecksum) = 2
    /\ \E i, j \in DOMAIN phase1Result.NeedChecksum :
         /\ EntriesFor(phase1Result.NeedChecksum[i].Path) = {}
         /\ ItemsAt(phase1Result.NeedChecksum[i].Path) = {}
         /\ EntriesFor(phase1Result.NeedChecksum[j].Path) # {}
         /\ ItemsAt(phase1Result.NeedChecksum[j].Path) # {}



\* the results Execute returned for an item
PoolResultsOf(item) == {k \in DOMAIN pool.allResults : pool.allResults[k].Item = item}

\* C36: when Execute has returned, its result list holds exactly one Result
\* for every item submitted, whether or not the context was cancelled.
C36_OneResultPerItem ==
    pc = "pool_done" =>
        /\ Len(pool.allResults) = pool.n
        /\ \A item \in 1..pool.n : Cardinality(PoolResultsOf(item)) = 1

\* what holds instead: no item has two Results; without a cancellation each
\* has one; after a cancellation each worker reports at most one item with
\* the context's error and returns, and the items still queued when the last
\* worker has returned have no Result at all
C36_ResultsUnderCancellation ==
    pc = "pool_done" =>
        /\ \A item \in 1..pool.n : Cardinality(PoolResultsOf(item)) <= 1
        /\ ~pool.ctxDone => \A item \in 1..pool.n : Cardinality(PoolResultsOf(item)) = 1
        /\ Cardinality({k \in DOMAIN pool.allResults :
                           pool.allResults[k].Error = "context canceled"})
              <= pool.concurrency
        /\ {item \in 1..pool.n : PoolResultsOf(item) = {}} = Range(pool.jobs)

\* Execute never waits on a full channel and never stops before it returns:
\* neither buffer is ever full when a send is due, and while Execute has not
\* returned some goroutine can take a step
C36_ExecuteNeverBlocks ==
    pc = "pool" =>
        /\ pool.st = "send" /\ pool.sent < pool.n => Len(pool.jobs) < pool.n
        /\ (\E w \in DOMAIN pool.wk : pool.wk[w].st = "work") => Len(pool.results) < pool.n
        /\ pool.jobs # <<>> => Len(pool.results) < pool.n
        /\ \/ pool.st = "send"
           \/ \E w \in DOMAIN pool.wk : pool.wk[w].st = "work"
           \/ \E w \in DOMAIN pool.wk :
                pool.wk[w].st = "recv" /\ (pool.jobs # <<>> \/ pool.jobsClosed)
           \/ \A w \in DOMAIN pool.wk : pool.wk[w].st = "exit"

\* Execute has returned one Result, that of a cancelled context, for three
\* items
C36_Reached ==
    /\ pc = "pool_done" /\ pool.n = 3 /\ pool.concurrency = 1
    /\ pool.allResults = <<[Item |-> 1, Error |-> "context canceled"]>>

\* the locals and the result of the wrapper's own call
RetryCall == <<pc, attempt, lastErr, invocations, lastOutcome, waits, ret>>

\* C37: retry honours cancellation.  When the context is cancelled while the
\* wrapper waits for the backoff delay, the wrapper's next step returns the
\* context's error, and the operation is not invoked again; and the attempts
\* and waits of one call are its own: no step of the concurrent call changes
\* the attempt count, the invocations or the waits of this call, and no step
\* of this call changes the attempt count of the concurrent call
C37_RetryHonoursCancellation ==
    [][/\ (pc = "retry_wait" /\ ~ctxDone /\ ctxDone') => pc' = "retry_woken"
       /\ pc = "retry_woken" =>
             \/ RetryCall' = RetryCall
             \/ /\ pc' = "retry_done"
                /\ ret' = Return(FALSE, CtxErr, FALSE)
                /\ invocations' = invocations
       /\ peer' # peer => RetryCall' = RetryCall
       /\ RetryCall' # RetryCall => peer' = peer]_vars

\* a wrapper that was cancelled in its second wait has returned the context's
\* error after two invocations, while the concurrent call was in its third
\* attempt
C37_Witness ==
    /\ pc = "retry_done" /\ ret = Return(FALSE, CtxErr, FALSE)
    /\ attempt = 1 /\ invocations = 2 /\ waits = 2
    /\ peer.attempt = 2

\* the context was cancelled while the wrapper waited, and the concurrent call
\* waits too, in another attempt than the wrapper's
C37_WitnessWoken ==
    /\ pc = "retry_woken" /\ ctxDone
    /\ attempt = 0 /\ peer.st = "wait" /\ peer.attempt = 1

\* C38: once reading a part or uploading a part has failed, multipartUpload
\* makes no further call: the failed UploadPart, if any, is the last call,
\* every UploadPart before it gave a completed part, and
\* CompleteMultipartUpload is not called; the upload returns the error of the
\* loop; and the object stored under the key is what it was before.
C38_MultipartFailure ==
    /\ [](mp.uploadErr # "nil" =>
            /\ CallsOf("CompleteMultipartUpload") = {}
            /\ Cardinality(CallsOf("UploadPart")) =
                  Len(mp.completedParts) + (IF mp.uploadErr = "upload part" THEN 1 ELSE 0)
            /\ mp.uploadErr = "upload part" => mp.calls[Len(mp.calls)].op = "UploadPart"
            /\ mp.object # "new"
            /\ mp.st = "returned" => mp.err = mp.uploadErr)
    /\ [][mp.uploadErr # "nil" =>
            /\ mp'.calls = mp.calls
            /\ mp'.object = mp.object
            /\ mp'.st = "returned" /\ mp'.err = mp.uploadErr]_vars

\* the third UploadPart failed over an object stored before: the upload
\* returned its error after four calls, and the old object is still there
C38_Witness ==
    /\ mp.st = "returned" /\ mp.err = "upload part" /\ mp.object = "old"
    /\ Len(mp.calls) = 4 /\ Len(mp.completedParts) = 2

\* the read of the second part failed: the upload returned the error after
\* one UploadPart
C38_WitnessRead ==
    /\ mp.st = "returned" /\ mp.err = "read part" /\ mp.object = "old"
    /\ Len(mp.calls) = 2

(***************************************************************************)
(* Properties of two runs in a row (SpecAgain).                            *)
(***************************************************************************)
\* the second run has not changed the bucket and has made no call that
\* would; the plan its Plan returned is empty; and it has ended, if it has,
\* without any result and with exit status 0
SecondRunIdle ==
    /\ store = store0
    /\ \A c \in calls : c.op \notin {"PutObject", "DeleteObject"}
    /\ pc # "start" /\ planErr = "nil" => items = <<>>
    /\ pc = "done" /\ planErr = "nil" => results = <<>> /\ exitCode = 0

\* C39: after a run in which Plan succeeded and no item failed, a second run
\* over the same local tree with the same options gets an empty plan from
\* Plan and makes no PutObject and no DeleteObject call: the bucket stays as
\* the first run left it.
C39_Idempotence == run = 2 => SecondRunIdle

\* the same with the destination given without a trailing slash
C39_IdempotenceNoTrailingSlash ==
    (run = 2 /\ (prefix = <<>> \/ prefix[Len(prefix)] # "/")) => SecondRunIdle

\* a second run has ended after a first run that uploaded two files and
\* deleted nothing: its plan was empty and it compared both files by checksum
C39_Reached ==
    /\ run = 2 /\ pc = "done" /\ planErr = "nil" /\ items = <<>>
    /\ prefix = <<"p">> /\ DOMAIN fs = RunPaths /\ excludes = <<>>
    /\ \A p \in RunPaths : store[KeyUnder(prefix, p)] = ObjectOf(fs[p])
    /\ Len(planCalls) = 3

\* a second run with the destination s3://k/p/ uploads again the file the
\* first run has uploaded
C39_ReachedUploadAgain ==
    /\ run = 2 /\ pc = "done" /\ exitCode = 0 /\ prefix = <<"p", "/">>
    /\ Call("PutObject", <<"p", "/", "a", ".", "t">>) \in calls
    /\ store = store0


=============================================================================
